---------------------------- MODULE Spec2Model ----------------------------
(***************************************************************************)
(* Delta Board: the client-side replication layer (LWW merge, join-time    *)
(* sync window, validation, dedup) and the relay's message routing.        *)
(*                                                                         *)
(* Three specifications share the module's variables:                      *)
(*   SpecMerge  the pure merge functions applied to bounded inputs;        *)
(*   Spec       one replica driven by its socket, timers and user;         *)
(*   SpecBoard  two replicas joined through the relay.                     *)
(***************************************************************************)
EXTENDS Integers, Sequences, FiniteSets, TLC

(***************************************************************************)
(* Bounds of the model.                                                    *)
(***************************************************************************)
MaxRev == 3

(***************************************************************************)
(* Program constants.                                                      *)
(***************************************************************************)
BOARD_VERSION == 1

(***************************************************************************)
(* Identifiers.  JavaScript compares authorId / voterId as strings; the    *)
(* model keeps the identifiers in a lexicographically sorted sequence and  *)
(* compares their positions.                                               *)
(***************************************************************************)
SortedIds == <<"a", "b">>

ClientIds == {SortedIds[i] : i \in 1..Len(SortedIds)}

IdRank(s) == CHOOSE i \in 1..Len(SortedIds) : SortedIds[i] = s

StrGreater(x, y) == IdRank(x) > IdRank(y)

Phases == {"forming", "reviewing"}

\* (column, text) pairs a card may carry
Payloads == {<<"well", "x">>, <<"delta", "y">>}

(***************************************************************************)
(* types.js: Card, Vote, BoardState.  A BoardState whose version field is  *)
(* missing (loadBoard returns none) has version 0 here: JavaScript's       *)
(* `version || 1` treats a missing field and 0 alike.                      *)
(***************************************************************************)
Card(id, payload, authorId, rev, isDeleted) ==
    [id |-> id, column |-> payload[1], text |-> payload[2],
     authorId |-> authorId, rev |-> rev, isDeleted |-> isDeleted]

VoteId(cardId, voterId) == <<cardId, voterId>>

Vote(cardId, voterId, rev, isDeleted) ==
    [id |-> VoteId(cardId, voterId), cardId |-> cardId, voterId |-> voterId,
     rev |-> rev, isDeleted |-> isDeleted]

BoardState(version, phase, cards, votes) ==
    [version |-> version, phase |-> phase, cards |-> cards, votes |-> votes]

createEmptyState == BoardState(BOARD_VERSION, "forming", <<>>, <<>>)

(***************************************************************************)
(* merge.js.  mergeCard and mergeVote return one of their two arguments;   *)
(* mergeState tests `winner !== localCard` by object identity, so the      *)
(* model first computes which argument is returned.                        *)
(***************************************************************************)
\* mutant: the isDeleted rule is missing
mergeCardPick_NoTombstoneRule(local, remote) ==
    IF remote.rev > local.rev THEN "remote"
    ELSE IF local.rev > remote.rev THEN "local"
    ELSE IF StrGreater(remote.authorId, local.authorId) THEN "remote"
    ELSE "local"

\* mutant: a remote version of equal rev replaces the local one
mergeCardPick_RemoteOnTie(local, remote) ==
    IF remote.rev >= local.rev THEN "remote" ELSE "local"

\* mutant: of a live and a deleted version the live one wins
mergeCardPick_PreferLive(local, remote) ==
    IF remote.isDeleted # local.isDeleted
    THEN (IF local.isDeleted THEN "remote" ELSE "local")
    ELSE IF remote.rev > local.rev THEN "remote"
    ELSE IF local.rev > remote.rev THEN "local"
    ELSE IF StrGreater(remote.authorId, local.authorId) THEN "remote"
    ELSE "local"

mergeCardPick(local, remote) ==
    IF remote.rev > local.rev THEN "remote"
    ELSE IF local.rev > remote.rev THEN "local"
    ELSE IF StrGreater(remote.authorId, local.authorId) THEN "remote"
    ELSE IF StrGreater(local.authorId, remote.authorId) THEN "local"
    ELSE IF remote.isDeleted /\ ~local.isDeleted THEN "remote"
    ELSE "local"

mergeCard(local, remote) ==
    IF mergeCardPick(local, remote) = "remote" THEN remote ELSE local

\* mutant: the voterId tie-break is missing
mergeVotePick_NoOwnerRule(local, remote) ==
    IF remote.rev > local.rev THEN "remote"
    ELSE IF local.rev > remote.rev THEN "local"
    ELSE IF remote.isDeleted /\ ~local.isDeleted THEN "remote"
    ELSE "local"

mergeVotePick(local, remote) ==
    IF remote.rev > local.rev THEN "remote"
    ELSE IF local.rev > remote.rev THEN "local"
    ELSE IF StrGreater(remote.voterId, local.voterId) THEN "remote"
    ELSE IF StrGreater(local.voterId, remote.voterId) THEN "local"
    ELSE IF remote.isDeleted /\ ~local.isDeleted THEN "remote"
    ELSE "local"

mergeVote(local, remote) ==
    IF mergeVotePick(local, remote) = "remote" THEN remote ELSE local

\* mutant: the phase of the remote state is taken
mergePhase_TakeRemote(local, remote) == remote

mergePhase(local, remote) ==
    IF local = "reviewing" \/ remote = "reviewing" THEN "reviewing" ELSE "forming"

\* position of the entry with this id in a list, 0 when there is none
IndexOf(list, id) ==
    IF \E i \in 1..Len(list) : list[i].id = id
    THEN CHOOSE i \in 1..Len(list) : list[i].id = id
    ELSE 0

\* Map.set: replace the value under an existing key in place, else append
MapSet(list, item) ==
    IF IndexOf(list, item.id) = 0 THEN Append(list, item)
    ELSE [list EXCEPT ![IndexOf(list, item.id)] = item]

\* the Map built from the local list (merge.js:113-116, 134-137)
RECURSIVE MapOf(_)
MapOf(list) ==
    IF list = <<>> THEN <<>>
    ELSE MapSet(MapOf(SubSeq(list, 1, Len(list) - 1)), list[Len(list)])

\* the loop over the remote cards (merge.js:118-131): [map, changed]
RECURSIVE mergeCards(_, _)
mergeCards(acc, remote) ==
    IF remote = <<>> THEN acc
    ELSE LET r == Head(remote)
             i == IndexOf(acc.map, r.id)
             step == IF i = 0
                     THEN [map |-> Append(acc.map, r), changed |-> TRUE]
                     ELSE IF mergeCardPick(acc.map[i], r) = "remote"
                          THEN [map |-> [acc.map EXCEPT ![i] = mergeCard(acc.map[i], r)],
                                changed |-> TRUE]
                          ELSE acc
         IN mergeCards(step, Tail(remote))

\* the loop over the remote votes (merge.js:139-152): [map, changed]
RECURSIVE mergeVotes(_, _)
mergeVotes(acc, remote) ==
    IF remote = <<>> THEN acc
    ELSE LET r == Head(remote)
             i == IndexOf(acc.map, r.id)
             step == IF i = 0
                     THEN [map |-> Append(acc.map, r), changed |-> TRUE]
                     ELSE IF mergeVotePick(acc.map[i], r) = "remote"
                          THEN [map |-> [acc.map EXCEPT ![i] = mergeVote(acc.map[i], r)],
                                changed |-> TRUE]
                          ELSE acc
         IN mergeVotes(step, Tail(remote))

Max(x, y) == IF x >= y THEN x ELSE y

\* `v || 1`
OrOne(v) == IF v = 0 THEN 1 ELSE v

\* mutant: a phase that advanced is not reported as a change
mergeState_PhaseUnreported(local, remote) ==
    LET mergedPhase == mergePhase(local.phase, remote.phase)
        cs == mergeCards([map |-> MapOf(local.cards), changed |-> FALSE], remote.cards)
        vs == mergeVotes([map |-> MapOf(local.votes), changed |-> FALSE], remote.votes)
    IN [state |-> BoardState(Max(OrOne(local.version), OrOne(remote.version)),
                             mergedPhase, cs.map, vs.map),
        changed |-> cs.changed \/ vs.changed]

mergeState(local, remote) ==
    LET mergedPhase == mergePhase(local.phase, remote.phase)
        cs == mergeCards([map |-> MapOf(local.cards), changed |-> FALSE], remote.cards)
        vs == mergeVotes([map |-> MapOf(local.votes), changed |-> FALSE], remote.votes)
    IN [state |-> BoardState(Max(OrOne(local.version), OrOne(remote.version)),
                             mergedPhase, cs.map, vs.map),
        changed |-> (mergedPhase # local.phase) \/ cs.changed \/ vs.changed]

(***************************************************************************)
(* List helpers.                                                           *)
(***************************************************************************)
\* the entries of a list as a set
Entries(list) == {list[i] : i \in 1..Len(list)}

Ids(list) == {list[i].id : i \in 1..Len(list)}

\* the entry with this id
Entry(list, id) == list[IndexOf(list, id)]

UniqueIds(list) == \A i, j \in 1..Len(list) : list[i].id = list[j].id => i = j

(***************************************************************************)
(* Wire frames.  Every frame is a record of the same shape; a field a      *)
(* frame does not carry is "" (a missing string is falsy in JavaScript),   *)
(* 0 or NoState.  hasIsDeleted tells whether the isDeleted field is there. *)
(* json is what JsonDocument.Parse makes of the text: "object", "array"    *)
(* (any root that is not an object) or "invalid" (no JSON at all).         *)
(***************************************************************************)
NoState == BoardState(0, "", <<>>, <<>>)

\* an opId is <<clientId, opCounter>> (connection.js generateOpId); NoOpId
\* stands for a frame without an opId
NoOpId == <<>>

Frame(type) ==
    [type |-> type, opId |-> NoOpId, clientId |-> "", senderId |-> "", phase |-> "", action |-> "",
     cardId |-> "", column |-> "", text |-> "", authorId |-> "", voterId |-> "",
     rev |-> 0, hasIsDeleted |-> FALSE, isDeleted |-> FALSE,
     state |-> NoState, targetClientId |-> "", syncForClientId |-> "",
     participantCount |-> 0, readyCount |-> 0, message |-> "",
     hasIsReady |-> FALSE, isReady |-> FALSE, hasReady |-> FALSE, ready |-> FALSE,
     json |-> "object"]

CardOpFrame(opId, senderId, phase, action, hasFlag, flag, cardId, payload, authorId, rev) ==
    [Frame("cardOp") EXCEPT !.opId = opId, !.senderId = senderId, !.phase = phase,
        !.action = action, !.hasIsDeleted = hasFlag, !.isDeleted = flag,
        !.cardId = cardId, !.column = payload[1], !.text = payload[2],
        !.authorId = authorId, !.rev = rev]

VoteFrame(opId, senderId, phase, action, hasFlag, flag, cardId, voterId, rev) ==
    [Frame("vote") EXCEPT !.opId = opId, !.senderId = senderId, !.phase = phase,
        !.action = action, !.hasIsDeleted = hasFlag, !.isDeleted = flag,
        !.cardId = cardId, !.voterId = voterId, !.rev = rev]

PhaseChangedFrame(opId, senderId, phase) ==
    [Frame("phaseChanged") EXCEPT !.opId = opId, !.senderId = senderId, !.phase = phase]

HelloFrame(clientId) == [Frame("hello") EXCEPT !.clientId = clientId]

WelcomeFrame == Frame("welcome")

ParticipantsUpdateFrame(syncForClientId) ==
    [Frame("participantsUpdate") EXCEPT !.syncForClientId = syncForClientId]

SyncStateFrame(targetClientId, st) ==
    [Frame("syncState") EXCEPT !.targetClientId = targetClientId, !.state = st]

(***************************************************************************)
(* validation.js (incoming and local guards).                              *)
(***************************************************************************)
isValidPhaseValue(phase) == phase = "forming" \/ phase = "reviewing"

shouldRejectForPhase(messagePhase, localPhase) ==
    localPhase = "reviewing" /\ messagePhase = "forming"

\* the stored rev, 0 standing for null
getCardRev(st, cardId) ==
    IF IndexOf(st.cards, cardId) = 0 THEN 0 ELSE Entry(st.cards, cardId).rev

getVoteRev(st, cardId, voterId) ==
    IF IndexOf(st.votes, VoteId(cardId, voterId)) = 0 THEN 0
    ELSE Entry(st.votes, VoteId(cardId, voterId)).rev

validateCommonOp(op, localPhase) ==
    /\ isValidPhaseValue(op.phase)
    /\ ~shouldRejectForPhase(op.phase, localPhase)

validateIncomingCardOp(op, st, localPhase) ==
    /\ op.type = "cardOp" /\ op.opId # NoOpId
    /\ validateCommonOp(op, localPhase)
    /\ op.senderId # ""
    /\ op.cardId # "" /\ op.authorId # ""
    /\ op.rev >= 1
    /\ op.action \in {"create", "edit", "delete"}
    /\ (op.action = "create" => (op.column # "" /\ op.text # ""))
    /\ op.authorId = op.senderId
    /\ ~(getCardRev(st, op.cardId) # 0 /\ op.rev < getCardRev(st, op.cardId))

validateIncomingVoteOp(op, st, localPhase) ==
    /\ op.type = "vote" /\ op.opId # NoOpId
    /\ validateCommonOp(op, localPhase)
    /\ op.senderId # ""
    /\ op.cardId # "" /\ op.voterId # ""
    /\ op.rev >= 1
    /\ op.action \in {"add", "remove"}
    /\ op.voterId = op.senderId
    /\ ~(getVoteRev(st, op.cardId, op.voterId) # 0
            /\ op.rev < getVoteRev(st, op.cardId, op.voterId))

validateIncomingPhaseChange(op, localPhase) ==
    /\ op.type = "phaseChanged" /\ op.opId # NoOpId
    /\ validateCommonOp(op, localPhase)
    /\ op.senderId # ""

\* mutant: the rev of a local op is not compared with the stored rev
validateLocalCardOp_AnyRev(op, st, localPhase, localClientId) ==
    /\ op.type = "cardOp"
    /\ op.authorId = localClientId
    /\ op.phase = localPhase
    /\ op.cardId # ""
    /\ op.rev >= 1
    /\ op.action \in {"create", "edit", "delete"}
    /\ (op.action = "create" => (op.column # "" /\ op.text # ""))

validateLocalCardOp(op, st, localPhase, localClientId) ==
    /\ op.type = "cardOp"
    /\ op.authorId = localClientId
    /\ op.phase = localPhase
    /\ op.cardId # ""
    /\ op.rev >= 1
    /\ op.action \in {"create", "edit", "delete"}
    /\ (op.action = "create" => (op.column # "" /\ op.text # ""))
    /\ op.rev = getCardRev(st, op.cardId) + 1

validateLocalVoteOp(op, st, localPhase, localClientId) ==
    /\ op.type = "vote"
    /\ op.voterId = localClientId
    /\ op.phase = localPhase
    /\ op.cardId # ""
    /\ op.rev >= 1
    /\ op.action \in {"add", "remove"}
    /\ op.rev = getVoteRev(st, op.cardId, op.voterId) + 1

(***************************************************************************)
(* operations.js: applyCardOp, applyVote, hasVoted.                        *)
(***************************************************************************)
\* mutant: the op's version replaces the stored one without the LWW merge
applyCardOp_NoMerge(st, op) ==
    LET isDeleted == IF op.hasIsDeleted THEN op.isDeleted ELSE op.action = "delete"
        nextCard == [id |-> op.cardId, column |-> op.column, text |-> op.text,
                     authorId |-> op.authorId, rev |-> op.rev, isDeleted |-> isDeleted]
    IN [st EXCEPT !.cards = MapSet(st.cards, nextCard)]

applyCardOp(st, op) ==
    LET isDeleted == IF op.hasIsDeleted THEN op.isDeleted ELSE op.action = "delete"
        index == IndexOf(st.cards, op.cardId)
        nextCard == [id |-> op.cardId, column |-> op.column, text |-> op.text,
                     authorId |-> op.authorId, rev |-> op.rev, isDeleted |-> isDeleted]
    IN IF index = 0 THEN [st EXCEPT !.cards = Append(@, nextCard)]
       ELSE [st EXCEPT !.cards[index] = mergeCard(@, nextCard)]

applyVote(st, op) ==
    LET isDeleted == IF op.hasIsDeleted THEN op.isDeleted ELSE op.action = "remove"
        index == IndexOf(st.votes, VoteId(op.cardId, op.voterId))
        nextVote == [id |-> VoteId(op.cardId, op.voterId), cardId |-> op.cardId,
                     voterId |-> op.voterId, rev |-> op.rev, isDeleted |-> isDeleted]
    IN IF index = 0 THEN [st EXCEPT !.votes = Append(@, nextVote)]
       ELSE [st EXCEPT !.votes[index] = mergeVote(@, nextVote)]

hasVoted(st, cardId, voterId) ==
    /\ IndexOf(st.votes, VoteId(cardId, voterId)) # 0
    /\ ~Entry(st.votes, VoteId(cardId, voterId)).isDeleted

(***************************************************************************)
(* sync.js, completeSync: the fold of the received snapshots into the      *)
(* local state, [state, changed].                                          *)
(***************************************************************************)
\* mutant: only the last fold decides whether anything changed
RECURSIVE foldStates_LastChange(_, _)
foldStates_LastChange(acc, received) ==
    IF received = <<>> THEN acc
    ELSE LET result == mergeState(acc.state, Head(received))
         IN foldStates_LastChange([state |-> result.state, changed |-> result.changed],
                                  Tail(received))

RECURSIVE foldStates(_, _)
foldStates(acc, received) ==
    IF received = <<>> THEN acc
    ELSE LET result == mergeState(acc.state, Head(received))
         IN foldStates([state |-> result.state,
                        changed |-> acc.changed \/ result.changed], Tail(received))

\* mutant: only the op that arrived first is replayed
onBufferedOps_FirstOnly(st, ops) ==
    IF ops = <<>> THEN st
    ELSE IF Head(ops).type = "cardOp" THEN applyCardOp(st, Head(ops))
    ELSE IF Head(ops).type = "vote" THEN applyVote(st, Head(ops))
    ELSE st

\* app.js, onBufferedOps: the buffered ops replayed in arrival order
RECURSIVE onBufferedOps(_, _)
onBufferedOps(st, ops) ==
    IF ops = <<>> THEN st
    ELSE LET op == Head(ops)
             next == IF op.type = "cardOp" THEN applyCardOp(st, op)
                     ELSE IF op.type = "vote" THEN applyVote(st, op)
                     ELSE st
         IN onBufferedOps(next, Tail(ops))

(***************************************************************************)
(* State.                                                                  *)
(*   mLocal, mRemote   the two arguments handed to mergeState              *)
(*   mPc               "input" before the call, "done" after it            *)
(*   mLR, mRL          mergeState(mLocal, mRemote), mergeState(mRemote,    *)
(*                     mLocal) once computed                               *)
(* Per replica (a browser page on the board), indexed by client id:        *)
(*   state             app.js: the board state of the page                 *)
(*   connState         connection.js: state                                *)
(*   sock              connection.js: socket, by its readyState; "NONE"    *)
(*                     when socket is null                                 *)
(*   reconnectAttempts connection.js: reconnectAttempts                    *)
(*   opCounter         connection.js: opCounter                            *)
(*   isSyncing, receivedStates, bufferedOps   sync.js: the sync manager    *)
(*   seenOpIds         dedup.js: seenOpIds                                 *)
(*   sent              the frames the replica wrote to its socket in the   *)
(*                     last step                                           *)
(* Shared:                                                                 *)
(*   ev                the last step: who took it, which handler ran, the  *)
(*                     frame it handled, what came of it and the ops it    *)
(*                     replayed                                            *)
(*   budget            how many snapshots and other frames the peers may   *)
(*                     still deliver, how many user actions and connection *)
(*                     attempts remain                                     *)
(* The relay (BoardHub.cs) and the sockets between it and the replicas:    *)
(*   participants      board.Participants: the client ids registered       *)
(*   toRelay           per replica, the frames it wrote that the relay has *)
(*                     not read yet                                        *)
(*   toClient          per replica, the frames the relay wrote to it that  *)
(*                     its onmessage has not handled yet                   *)
(* Time, in seconds; the specifications without a clock leave it alone:    *)
(*   timeouts          per replica, connection.js reconnectTimeout,        *)
(*                     pingTimeout and pongTimeout: the seconds until the  *)
(*                     timer fires, NoTimer when none is pending           *)
(*   reported          per replica, the last message handed to onError     *)
(*   silence           per replica, the seconds since the oldest ping that *)
(*                     has had no pong, NoTimer when every ping had one    *)
(*   inactivity        per connection of the relay, the seconds since      *)
(*                     participant.LastActivity and the seconds until the  *)
(*                     next tick of MonitorInactivity's PeriodicTimer      *)
(***************************************************************************)
VARIABLES mLocal, mRemote, mPc, mLR, mRL,
          state, connState, sock, reconnectAttempts, opCounter,
          isSyncing, receivedStates, bufferedOps, seenOpIds, sent, ev, budget,
          participants, toRelay, toClient,
          boards, boardStates, handler, webSocket, out, hev,
          timeouts, reported, silence, inactivity,
          banner, counts, composed, detached

mergeVars == <<mLocal, mRemote, mPc, mLR, mRL>>

connVars == <<connState, sock, reconnectAttempts>>

syncVars == <<isSyncing, receivedStates, bufferedOps>>

replicaVars == <<state, connVars, opCounter, syncVars, seenOpIds, sent, ev, budget>>

\* BoardHub: the _boards entry of the board id, the BoardState objects
\* created so far, each connection's handler, the sockets' states, and what
\* the last step of a handler wrote and did
hubVars == <<boards, boardStates, handler, webSocket, out, hev>>

relayVars == <<participants, toRelay, toClient, hubVars>>

\* the timers of connection.js and of MonitorInactivity, and what they led to
timeVars == <<timeouts, reported, silence, inactivity>>

\* banner    what updateQuorumBanner last worked out, and from which counts
\* counts    per observed connection, the participantCount and readyCount
\*           its connection manager holds (connection.js:54-58)
\* composed  per relay handler, the participantsUpdate it has serialized
\*           and not yet written
\* detached  the readyStates of the sockets of earlier connect() calls
\*           whose close event is still to come
pendingVars == <<composed, detached>>

vars == <<mergeVars, replicaVars, relayVars, timeVars, banner, counts, pendingVars>>

(***************************************************************************)
(* Inputs of the merge specification: board states with unique ids.        *)
(*   CardOnly  one card "c1" in every version the bounds allow             *)
(*   VoteOnly  one vote in every version the bounds allow                  *)
(*   Mixed     up to two cards with different ids, in both list orders,    *)
(*             with or without a vote                                      *)
(***************************************************************************)
CardVersions(id) ==
    {Card(id, p, a, r, d) : p \in Payloads, a \in ClientIds, r \in 1..MaxRev, d \in BOOLEAN}

VoteVersions(cardId, voter) ==
    {[id |-> VoteId(cardId, voter), cardId |-> cardId, voterId |-> w,
      rev |-> r, isDeleted |-> d] : w \in ClientIds, r \in 1..MaxRev, d \in BOOLEAN}

Versions == {0, BOARD_VERSION}

K1 == Card("c1", <<"well", "x">>, "a", 1, FALSE)

K2 == Card("c2", <<"delta", "y">>, "b", 1, FALSE)

W0 == Vote("c1", "b", 1, FALSE)

CardOnly ==
    {BoardState(v, ph, <<c>>, <<>>) : v \in Versions, ph \in Phases, c \in CardVersions("c1")}

VoteOnly ==
    {BoardState(v, ph, <<>>, <<w>>) : v \in Versions, ph \in Phases, w \in VoteVersions("c1", "b")}

Mixed ==
    {BoardState(v, ph, cs, ws) : v \in Versions, ph \in Phases,
        cs \in {<<>>, <<K1>>, <<K2>>, <<K1, K2>>, <<K2, K1>>}, ws \in {<<>>, <<W0>>}}

MergeInputs == CardOnly \cup VoteOnly \cup Mixed

NoResult == [state |-> createEmptyState, changed |-> FALSE]

Replicas == ClientIds

NoEvent ==
    [who |-> "", kind |-> "", frame |-> Frame(""), outcome |-> "", replayed |-> <<>>,
     code |-> 0]

\* the replicas before initBoard runs: nothing loaded, nothing connected
NoReplicas ==
    /\ state = [r \in Replicas |-> createEmptyState]
    /\ connState = [r \in Replicas |-> "disconnected"]
    /\ sock = [r \in Replicas |-> "NONE"]
    /\ reconnectAttempts = [r \in Replicas |-> 0]
    /\ opCounter = [r \in Replicas |-> 0]
    /\ isSyncing = [r \in Replicas |-> FALSE]
    /\ receivedStates = [r \in Replicas |-> <<>>]
    /\ bufferedOps = [r \in Replicas |-> <<>>]
    /\ seenOpIds = [r \in Replicas |-> {}]
    /\ sent = [r \in Replicas |-> <<>>]
    /\ ev = NoEvent
    /\ budget = [snapshots |-> 0, frames |-> 0, ops |-> 0, sessions |-> 0]
    /\ participants = {}
    /\ toRelay = [r \in Replicas |-> <<>>]
    /\ toClient = [r \in Replicas |-> <<>>]

(***************************************************************************)
(* The sockets of the relay: the connections whose handlers are followed   *)
(* from their start, and the sockets of sessions that joined earlier.  A   *)
(* session joined earlier is registered under the name of its socket.      *)
(***************************************************************************)
MaxConns == 3

ConnIds == <<"k1", "k2", "k3", "k4", "k5">>

Conns == {ConnIds[i] : i \in 1..MaxConns}

MaxParticipantsPerBoard == 20

CrowdIds == <<"p01", "p02", "p03", "p04", "p05", "p06", "p07", "p08", "p09", "p10",
              "p11", "p12", "p13", "p14", "p15", "p16", "p17", "p18", "p19", "p20">>

Crowd(n) == {CrowdIds[i] : i \in 1..n}

Sockets == Conns \cup Crowd(MaxParticipantsPerBoard)

NoHandler == [pc |-> "done", board |-> 0, clientId |-> ""]

NoHubEvent == [conn |-> "", kind |-> "", frame |-> Frame(""), close |-> 0]

\* no relay: no board entry, no handler running
NoHub ==
    /\ boards = 0
    /\ boardStates = <<>>
    /\ handler = [k \in Sockets |-> NoHandler]
    /\ webSocket = [k \in Sockets |-> "Closed"]
    /\ out = {}
    /\ hev = NoHubEvent

\* connection.js: no timer is pending (pingTimeout = null and the like)
NoTimer == -1

NoTimeouts ==
    [reconnectTimeout |-> NoTimer, pingTimeout |-> NoTimer, pongTimeout |-> NoTimer]

NoMonitor == [inactiveSeconds |-> 0, timer |-> NoTimer]

NoBanner == [participantCount |-> 0, readyCount |-> 0, needed |-> 0, visible |-> FALSE]

NoCounts == [k \in {} |-> [participantCount |-> 0, readyCount |-> 0]]

NoUpdate == Frame("")

\* nothing observed: no banner worked out, no connection's counts followed,
\* no update held back, no earlier socket alive
NoPresence ==
    /\ banner = NoBanner
    /\ counts = NoCounts
    /\ composed = [k \in Sockets |-> NoUpdate]
    /\ detached = <<>>

\* no clock: no timer pending, nothing reported
NoTime ==
    /\ timeouts = [r \in Replicas |-> NoTimeouts]
    /\ reported = [r \in Replicas |-> ""]
    /\ silence = [r \in Replicas |-> NoTimer]
    /\ inactivity = [k \in Sockets |-> NoMonitor]

InitMerge ==
    /\ mLocal \in MergeInputs
    /\ mRemote \in MergeInputs
    /\ mPc = "input"
    /\ mLR = NoResult
    /\ mRL = NoResult
    /\ NoReplicas
    /\ NoHub
    /\ NoTime
    /\ NoPresence

\* one call of mergeState in each argument order
Merge ==
    /\ mPc = "input"
    /\ mLR' = mergeState(mLocal, mRemote)
    /\ mRL' = mergeState(mRemote, mLocal)
    /\ mPc' = "done"
    /\ UNCHANGED <<mLocal, mRemote>>
    /\ UNCHANGED <<replicaVars, relayVars, timeVars, banner, counts, pendingVars>>

NextMerge == Merge

SpecMerge == InitMerge /\ [][NextMerge]_vars

(***************************************************************************)
(* The replica: one browser page on the board (app.js initBoard), its      *)
(* connection manager (connection.js), its sync manager (sync.js) and its  *)
(* dedup tracker (dedup.js).  Each definition below is one handler; the    *)
(* specifications add who may call it and when.                            *)
(***************************************************************************)
RECONNECT_MAX_ATTEMPTS == 10

\* close codes a socket may end with: normal, protocol error, abnormal,
\* policy violation, application defined
CloseCodes == {1000, 1002, 1006, 1008, 4000}

Sent(r, frames) == sent' = [x \in Replicas |-> IF x = r THEN frames ELSE <<>>]

Note(r, kind, frame, outcome, replayed) ==
    ev' = [who |-> r, kind |-> kind, frame |-> frame, outcome |-> outcome,
           replayed |-> replayed, code |-> 0]

\* connection.js send: the frame is written only to an OPEN socket
send(r, frame) == IF sock[r] = "OPEN" THEN <<frame>> ELSE <<>>

\* connection.js connect, called by initBoard and by the reconnect timer:
\* it returns at once while a socket is being set up or is ready
connect(r) ==
    /\ connState[r] \notin {"connecting", "handshaking", "ready"}
    /\ connState' = [connState EXCEPT ![r] = "connecting"]
    /\ sock' = [sock EXCEPT ![r] = "CONNECTING"]
    /\ Sent(r, <<>>)
    /\ Note(r, "connect", Frame(""), "", <<>>)
    /\ UNCHANGED <<state, reconnectAttempts, opCounter, syncVars, seenOpIds>>

\* socket.onopen: handshaking, hello sent
onopen(r) ==
    /\ sock[r] = "CONNECTING"
    /\ sock' = [sock EXCEPT ![r] = "OPEN"]
    /\ connState' = [connState EXCEPT ![r] = "handshaking"]
    /\ Sent(r, <<HelloFrame(r)>>)
    /\ Note(r, "open", Frame(""), "", <<>>)
    /\ UNCHANGED <<state, reconnectAttempts, opCounter, syncVars, seenOpIds>>

\* the socket leaves OPEN before its close event: socket.close() of the pong
\* timeout or of a handshake error, or a closing handshake the peer started
closing(r) ==
    /\ sock[r] = "OPEN"
    /\ sock' = [sock EXCEPT ![r] = "CLOSING"]
    /\ Sent(r, <<>>)
    /\ Note(r, "closing", Frame(""), "", <<>>)
    /\ UNCHANGED <<state, connState, reconnectAttempts, opCounter, syncVars, seenOpIds>>

\* socket.onclose: cleanup, then closed for a policy close, else disconnected
\* and scheduleReconnect; onStateChange cancels the sync window either way.
\* The event also comes from a socket that disconnect() detached.  The
\* handler is a closure over the manager's variables, not over its socket.
handleClose(r, code) ==
    LET terminal == code = 1008 \/ code = 4000
        exhausted == reconnectAttempts[r] >= RECONNECT_MAX_ATTEMPTS
        next == IF terminal \/ connState[r] = "closed" \/ exhausted
                THEN "closed" ELSE "disconnected"
    IN /\ sock' = [sock EXCEPT ![r] = "NONE"]
       /\ connState' = [connState EXCEPT ![r] = next]
       /\ reconnectAttempts' =
             IF next = "disconnected" THEN [reconnectAttempts EXCEPT ![r] = @ + 1]
             ELSE reconnectAttempts
       /\ isSyncing' = [isSyncing EXCEPT ![r] = FALSE]
       /\ receivedStates' = [receivedStates EXCEPT ![r] = <<>>]
       /\ bufferedOps' = [bufferedOps EXCEPT ![r] = <<>>]
       /\ Sent(r, <<>>)
       /\ ev' = [who |-> r, kind |-> "close", frame |-> Frame(""), outcome |-> next,
                 replayed |-> <<>>, code |-> code]
       /\ UNCHANGED <<state, opCounter, seenOpIds>>

\* the close event of the socket the manager holds, or of the one that
\* disconnect() let go of last
onclose(r, code) ==
    /\ sock[r] # "NONE"
    /\ handleClose(r, code)

\* handleMessage, welcome: ready; onStateChange starts the sync window
onWelcome(r, m) ==
    /\ reconnectAttempts' = [reconnectAttempts EXCEPT ![r] = 0]
    /\ connState' = [connState EXCEPT ![r] = "ready"]
    /\ IF connState[r] # "ready"
       THEN /\ isSyncing' = [isSyncing EXCEPT ![r] = TRUE]
            /\ receivedStates' = [receivedStates EXCEPT ![r] = <<>>]
            /\ bufferedOps' = [bufferedOps EXCEPT ![r] = <<>>]
       ELSE UNCHANGED syncVars
    /\ Sent(r, <<>>)
    /\ Note(r, "message", m, "ready", <<>>)
    /\ UNCHANGED <<state, sock, opCounter, seenOpIds>>

\* connection.js disconnect: closed (onStateChange cancels the sync window),
\* socket.close(), cleanup.  The socket variable is null afterwards while
\* the socket it held goes on to its close event: "DETACHED".
disconnect(r) ==
    /\ connState' = [connState EXCEPT ![r] = "closed"]
    /\ sock' = [sock EXCEPT ![r] = IF @ = "NONE" THEN "NONE" ELSE "DETACHED"]
    /\ IF connState[r] # "closed"
       THEN /\ isSyncing' = [isSyncing EXCEPT ![r] = FALSE]
            /\ receivedStates' = [receivedStates EXCEPT ![r] = <<>>]
            /\ bufferedOps' = [bufferedOps EXCEPT ![r] = <<>>]
       ELSE UNCHANGED syncVars
    /\ Sent(r, <<>>)
    /\ Note(r, "disconnect", Frame(""), connState[r], <<>>)
    /\ UNCHANGED <<state, reconnectAttempts, opCounter, seenOpIds>>

(***************************************************************************)
(* The timers of connection.js, on the timeouts record of one replica.     *)
(* Delays are in milliseconds in the source and in seconds on the clock.   *)
(***************************************************************************)
PING_INTERVAL_MS == 10000

PONG_TIMEOUT_MS == 12000

RECONNECT_MAX_DELAY_MS == 30000

Seconds(ms) == ms \div 1000

Min(x, y) == IF x <= y THEN x ELSE y

clearPongTimeout(t) == [t EXCEPT !.pongTimeout = NoTimer]

stopPing(t) == clearPongTimeout([t EXCEPT !.pingTimeout = NoTimer])

schedulePing(t) == [t EXCEPT !.pingTimeout = Seconds(PING_INTERVAL_MS)]

schedulePongTimeout(t) == [clearPongTimeout(t) EXCEPT !.pongTimeout = Seconds(PONG_TIMEOUT_MS)]

startPing(t) == schedulePing(stopPing(t))

cleanup_KeepTimers(t) == t

cleanup(t) == [stopPing(t) EXCEPT !.reconnectTimeout = NoTimer]

\* scheduleReconnect: the delay of the attempt made after n attempts
reconnectDelay_NoCap(n) == 1000 * 2^n

reconnectDelay(n) == Min(1000 * 2^n, RECONNECT_MAX_DELAY_MS)

scheduleReconnect(t, n) ==
    IF n >= RECONNECT_MAX_ATTEMPTS THEN t
    ELSE [t EXCEPT !.reconnectTimeout = Seconds(reconnectDelay(n))]

\* onParticipantsUpdate: the state is sent to the joiner the update names
onParticipantsUpdate(r, m) ==
    /\ Sent(r, IF m.syncForClientId # ""
               THEN send(r, SyncStateFrame(m.syncForClientId, state[r])) ELSE <<>>)
    /\ Note(r, "message", m, "", <<>>)
    /\ UNCHANGED <<state, connVars, opCounter, syncVars, seenOpIds>>

\* onMessage, syncState: syncManager.handleSyncState(message.state)
onSyncState(r, m) ==
    LET result == mergeState(state[r], m.state)
        outcome == IF isSyncing[r] THEN "collected"
                   ELSE IF result.changed THEN "merged" ELSE "unchanged"
    IN /\ receivedStates' =
             IF isSyncing[r] THEN [receivedStates EXCEPT ![r] = Append(@, m.state)]
             ELSE receivedStates
       /\ state' = IF outcome = "merged" THEN [state EXCEPT ![r] = result.state] ELSE state
       /\ Sent(r, <<>>)
       /\ Note(r, "message", m, outcome, <<>>)
       /\ UNCHANGED <<connVars, opCounter, isSyncing, bufferedOps, seenOpIds>>

\* what becomes of an incoming op: validation, dedup.isDuplicate (which
\* records the opId), syncManager.handleOperation, apply
Outcome(r, m, valid) ==
    IF ~valid THEN "rejected"
    ELSE IF m.opId # NoOpId /\ m.opId \in seenOpIds[r] THEN "duplicate"
    ELSE IF isSyncing[r] THEN "buffered" ELSE "applied"

Seen(r, m, valid) ==
    seenOpIds' = IF valid /\ m.opId # NoOpId
                 THEN [seenOpIds EXCEPT ![r] = @ \cup {m.opId}] ELSE seenOpIds

Buffered(r, m, outcome) ==
    bufferedOps' = IF outcome = "buffered"
                   THEN [bufferedOps EXCEPT ![r] = Append(@, m)] ELSE bufferedOps

\* onMessage, cardOp
onCardOp(r, m) ==
    LET valid == validateIncomingCardOp(m, state[r], state[r].phase)
        outcome == Outcome(r, m, valid)
    IN /\ Seen(r, m, valid)
       /\ Buffered(r, m, outcome)
       /\ state' = IF outcome = "applied"
                   THEN [state EXCEPT ![r] = applyCardOp(@, m)] ELSE state
       /\ Sent(r, <<>>)
       /\ Note(r, "message", m, outcome, <<>>)
       /\ UNCHANGED <<connVars, opCounter, isSyncing, receivedStates>>

\* onMessage, vote
onVote(r, m) ==
    LET valid == validateIncomingVoteOp(m, state[r], state[r].phase)
        outcome == Outcome(r, m, valid)
    IN /\ Seen(r, m, valid)
       /\ Buffered(r, m, outcome)
       /\ state' = IF outcome = "applied"
                   THEN [state EXCEPT ![r] = applyVote(@, m)] ELSE state
       /\ Sent(r, <<>>)
       /\ Note(r, "message", m, outcome, <<>>)
       /\ UNCHANGED <<connVars, opCounter, isSyncing, receivedStates>>

\* enterReviewPhase
enterReviewPhase(st) == [st EXCEPT !.phase = "reviewing"]

\* onMessage, phaseChanged: never buffered
onPhaseChanged(r, m) ==
    LET valid == validateIncomingPhaseChange(m, state[r].phase)
        duplicate == m.opId # NoOpId /\ m.opId \in seenOpIds[r]
        outcome == IF ~valid THEN "rejected" ELSE IF duplicate THEN "duplicate"
                   ELSE "applied"
    IN /\ Seen(r, m, valid)
       /\ state' = IF outcome = "applied" /\ m.phase = "reviewing"
                   THEN [state EXCEPT ![r] = enterReviewPhase(@)] ELSE state
       /\ Sent(r, <<>>)
       /\ Note(r, "message", m, outcome, <<>>)
       /\ UNCHANGED <<connVars, opCounter, syncVars>>

\* socket.onmessage: connection.js handleMessage, then app.js onMessage
handleMessage(r, m) ==
    CASE m.type = "welcome" -> onWelcome(r, m)
      [] m.type = "participantsUpdate" -> onParticipantsUpdate(r, m)
      [] m.type = "syncState" -> onSyncState(r, m)
      [] m.type = "cardOp" -> onCardOp(r, m)
      [] m.type = "vote" -> onVote(r, m)
      [] m.type = "phaseChanged" -> onPhaseChanged(r, m)

\* sync.js completeSync, run by the sync window's timer: fold the collected
\* snapshots into the local state, onStateReady, onBroadcastState when a fold
\* changed something, then onBufferedOps
completeSync(r) ==
    LET folded == foldStates([state |-> state[r], changed |-> FALSE], receivedStates[r])
        finalState == folded.state
        broadcasts == folded.changed /\ Len(receivedStates[r]) > 0
    IN /\ isSyncing[r]
       /\ isSyncing' = [isSyncing EXCEPT ![r] = FALSE]
       /\ receivedStates' = [receivedStates EXCEPT ![r] = <<>>]
       /\ bufferedOps' = [bufferedOps EXCEPT ![r] = <<>>]
       /\ state' = [state EXCEPT ![r] = onBufferedOps(finalState, bufferedOps[r])]
       /\ Sent(r, IF broadcasts THEN send(r, SyncStateFrame("", finalState)) ELSE <<>>)
       /\ Note(r, "completeSync", Frame(""),
               IF broadcasts THEN "changed" ELSE "unchanged", bufferedOps[r])
       /\ UNCHANGED <<connVars, opCounter, seenOpIds>>

(***************************************************************************)
(* User actions.  The page offers them in the forming phase only: the card *)
(* input, and on each visible card the vote button (cards of others) or    *)
(* the edit and delete buttons (own cards).  A replica authors one card,   *)
(* OwnCardId, and votes on the card of its peer.                           *)
(***************************************************************************)
OwnCardId(r) == IF r = "a" THEN "c1" ELSE "c2"

PeerCardId(r) == IF r = "a" THEN "c2" ELSE "c1"

isVisible(st, cardId) ==
    IndexOf(st.cards, cardId) # 0 /\ ~Entry(st.cards, cardId).isDeleted

\* connection.js broadcast of a local op, then dedup.markSeen of the opId
\* broadcast returned (null when nothing was sent)
broadcast(r, op, marks) ==
    LET opId == <<r, opCounter[r] + 1>>
    IN /\ opCounter' = [opCounter EXCEPT ![r] = @ + 1]
       /\ Sent(r, send(r, [op EXCEPT !.opId = opId]))
       /\ seenOpIds' = IF marks /\ sock[r] = "OPEN"
                       THEN [seenOpIds EXCEPT ![r] = @ \cup {opId}] ELSE seenOpIds

\* submitCard with no card being edited: createCard, rev 1
createCardOp(r, payload) ==
    CardOpFrame(NoOpId, "", state[r].phase, "create", TRUE, FALSE,
                OwnCardId(r), payload, r, 1)

\* submitCard while editing card: rev + 1 of the card being edited
editCardOp(r, card, payload) ==
    CardOpFrame(NoOpId, "", state[r].phase, "edit", TRUE, FALSE,
                card.id, payload, card.authorId, card.rev + 1)

deleteCardOp(r, card) ==
    CardOpFrame(NoOpId, "", state[r].phase, "delete", TRUE, TRUE,
                card.id, <<card.column, card.text>>, card.authorId, card.rev + 1)

\* handleVote: the toggle of the local vote on a card
voteOp(r, cardId) ==
    LET currentlyVoted == hasVoted(state[r], cardId, r)
    IN VoteFrame(NoOpId, "", state[r].phase, IF currentlyVoted THEN "remove" ELSE "add",
                 TRUE, currentlyVoted, cardId, r, getVoteRev(state[r], cardId, r) + 1)

localCardOp(r, op) ==
    /\ state[r].phase = "forming"
    /\ op.rev <= MaxRev
    /\ validateLocalCardOp(op, state[r], state[r].phase, r)
    /\ state' = [state EXCEPT ![r] = applyCardOp(@, op)]
    /\ broadcast(r, op, TRUE)
    /\ Note(r, "local", op, "applied", <<>>)
    /\ UNCHANGED <<connVars, syncVars>>

\* what submitCard, handleDeleteCard and handleVote do with the op they
\* built: return when validateLocal* fails, else apply, broadcast, markSeen
localOp(r, op) ==
    LET valid == IF op.type = "cardOp"
                 THEN validateLocalCardOp(op, state[r], state[r].phase, r)
                 ELSE validateLocalVoteOp(op, state[r], state[r].phase, r)
    IN IF valid
       THEN /\ state' = [state EXCEPT ![r] = IF op.type = "cardOp" THEN applyCardOp(@, op)
                                              ELSE applyVote(@, op)]
            /\ broadcast(r, op, TRUE)
            /\ Note(r, "local", op, "applied", <<>>)
            /\ UNCHANGED <<connVars, syncVars>>
       ELSE /\ Sent(r, <<>>)
            /\ Note(r, "local", op, "rejected", <<>>)
            /\ UNCHANGED <<state, connVars, opCounter, syncVars, seenOpIds>>

submitCard(r, payload) ==
    IF IndexOf(state[r].cards, OwnCardId(r)) = 0
    THEN localCardOp(r, createCardOp(r, payload))
    ELSE /\ isVisible(state[r], OwnCardId(r))
         /\ Entry(state[r].cards, OwnCardId(r)).authorId = r
         /\ localCardOp(r, editCardOp(r, Entry(state[r].cards, OwnCardId(r)), payload))

\* handleDeleteCard; its loop over the card's votes builds vote ops without
\* phase and action, which validateLocalVoteOp rejects, so no vote changes
handleDeleteCard(r) ==
    /\ isVisible(state[r], OwnCardId(r))
    /\ Entry(state[r].cards, OwnCardId(r)).authorId = r
    /\ localCardOp(r, deleteCardOp(r, Entry(state[r].cards, OwnCardId(r))))

handleVote(r) ==
    LET op == voteOp(r, PeerCardId(r))
    IN /\ state[r].phase = "forming"
       /\ isVisible(state[r], PeerCardId(r))
       /\ Entry(state[r].cards, PeerCardId(r)).authorId # r
       /\ op.rev <= MaxRev
       /\ validateLocalVoteOp(op, state[r], state[r].phase, r)
       /\ state' = [state EXCEPT ![r] = applyVote(@, op)]
       /\ broadcast(r, op, TRUE)
       /\ Note(r, "local", op, "applied", <<>>)
       /\ UNCHANGED <<connVars, syncVars>>

\* the start-review button: phaseChanged is broadcast, then enterReviewPhase
startReview(r) ==
    LET op == PhaseChangedFrame(NoOpId, "", "reviewing")
    IN /\ state[r].phase = "forming"
       /\ state' = [state EXCEPT ![r] = enterReviewPhase(@)]
       /\ broadcast(r, op, FALSE)
       /\ Note(r, "local", op, "applied", <<>>)
       /\ UNCHANGED <<connVars, syncVars>>

(***************************************************************************)
(* Spec: one replica, "a", in an open environment.  The relay and the      *)
(* peers are the environment: it answers hello with welcome, delivers up   *)
(* to MaxSnapshots syncState frames and MaxFrames other frames while the   *)
(* socket is up, and may close the socket.  The user acts up to MaxOps     *)
(* times and the page connects up to MaxSessions times.                    *)
(***************************************************************************)
MaxSnapshots == 2

MaxFrames == 1

MaxOps == 1

MaxSessions == 2

Self == "a"

Peer == "b"

P1 == <<"well", "x">>

P2 == <<"delta", "y">>

\* what loadBoard returns: phase, cards and votes, without a version
Loaded(phase, cards, votes) == BoardState(0, phase, cards, votes)

\* the states initBoard starts from: a new board, or a board of an earlier
\* visit read from localStorage
StoredStates ==
    {createEmptyState,
     Loaded("forming", <<Card("c1", P1, "a", 1, FALSE), Card("c2", P1, "b", 1, FALSE)>>, <<>>)}

\* the ops of the peer: its card created, edited and at last deleted (the
\* delete without an isDeleted field, as the validation tests build it); its
\* vote on the card of Self added, removed and added again in turn
PeerCardOps ==
    {CardOpFrame(<<Peer, rv>>, Peer, "forming",
                 IF rv = 1 THEN "create" ELSE IF rv = MaxRev THEN "delete" ELSE "edit",
                 rv < MaxRev, FALSE, "c2", IF rv = 1 THEN P1 ELSE P2, Peer, rv) :
        rv \in 1..MaxRev}

PeerVoteOps ==
    {VoteFrame(<<Peer, MaxRev + rv>>, Peer, "forming",
               IF rv % 2 = 1 THEN "add" ELSE "remove", TRUE, rv % 2 = 0, "c1", Peer, rv) :
        rv \in 1..MaxRev}

\* snapshots peers hold: the card of the peer in two versions of one rev,
\* one of them with the peer's vote added and removed again; and the peer's
\* card deleted, in review
Snapshots ==
    {BoardState(BOARD_VERSION, "forming", <<Card("c2", P1, "b", 1, FALSE)>>, <<>>),
     BoardState(BOARD_VERSION, "forming", <<Card("c2", P2, "b", 1, FALSE)>>,
                <<Vote("c1", "b", 2, TRUE)>>),
     BoardState(BOARD_VERSION, "reviewing", <<Card("c2", P2, "b", MaxRev, TRUE)>>, <<>>)}

SnapshotFrames == {SyncStateFrame("", st) : st \in Snapshots}

EnvFrames ==
    PeerCardOps \cup PeerVoteOps
    \cup {PhaseChangedFrame(<<Peer, 2 * MaxRev + 1>>, Peer, "reviewing")}
    \cup {ParticipantsUpdateFrame(Peer)}

Init ==
    /\ mLocal = createEmptyState
    /\ mRemote = createEmptyState
    /\ mPc = "idle"
    /\ mLR = NoResult
    /\ mRL = NoResult
    /\ state \in [Replicas -> StoredStates]
    /\ state[Peer] = createEmptyState
    /\ connState = [r \in Replicas |-> "disconnected"]
    /\ sock = [r \in Replicas |-> "NONE"]
    /\ reconnectAttempts = [r \in Replicas |-> 0]
    /\ opCounter = [r \in Replicas |-> 0]
    /\ isSyncing = [r \in Replicas |-> FALSE]
    /\ receivedStates = [r \in Replicas |-> <<>>]
    /\ bufferedOps = [r \in Replicas |-> <<>>]
    /\ seenOpIds = [r \in Replicas |-> {}]
    /\ sent = [r \in Replicas |-> <<>>]
    /\ ev = NoEvent
    /\ budget = [snapshots |-> MaxSnapshots, frames |-> MaxFrames, ops |-> MaxOps,
                 sessions |-> MaxSessions]
    /\ participants = {}
    /\ toRelay = [r \in Replicas |-> <<>>]
    /\ toClient = [r \in Replicas |-> <<>>]
    /\ NoHub
    /\ NoTime
    /\ NoPresence

Spend(what) == budget[what] > 0 /\ budget' = [budget EXCEPT ![what] = @ - 1]

\* initBoard's connect() or the reconnect timer, which is pending only while
\* the state is disconnected
Connect ==
    /\ connState[Self] = "disconnected"
    /\ Spend("sessions")
    /\ connect(Self)
    /\ UNCHANGED <<mergeVars, banner, pendingVars, counts, timeVars, relayVars>>

SocketOpen ==
    /\ onopen(Self)
    /\ UNCHANGED <<mergeVars, banner, pendingVars, counts, timeVars, relayVars, budget>>

\* the relay answers the hello
Welcome ==
    /\ connState[Self] = "handshaking"
    /\ sock[Self] = "OPEN"
    /\ handleMessage(Self, WelcomeFrame)
    /\ UNCHANGED <<mergeVars, banner, pendingVars, counts, timeVars, relayVars, budget>>

\* the socket hands frames to onmessage from the hello until its close event
Receiving(r) ==
    /\ connState[r] \in {"handshaking", "ready"}
    /\ sock[r] \in {"OPEN", "CLOSING"}

\* a snapshot of a peer arrives
DeliverSnapshot ==
    /\ Receiving(Self)
    /\ Spend("snapshots")
    /\ \E m \in SnapshotFrames : handleMessage(Self, m)
    /\ UNCHANGED <<mergeVars, banner, pendingVars, counts, timeVars, relayVars>>

\* an op of a peer, or a participantsUpdate of the relay, arrives
DeliverFrame ==
    /\ Receiving(Self)
    /\ Spend("frames")
    /\ \E m \in EnvFrames : handleMessage(Self, m)
    /\ UNCHANGED <<mergeVars, banner, pendingVars, counts, timeVars, relayVars>>

SocketClosing ==
    /\ closing(Self)
    /\ UNCHANGED <<mergeVars, banner, pendingVars, counts, timeVars, relayVars, budget>>

SocketClose ==
    /\ \E code \in CloseCodes : onclose(Self, code)
    /\ UNCHANGED <<mergeVars, banner, pendingVars, counts, timeVars, relayVars, budget>>

SyncTimer ==
    /\ completeSync(Self)
    /\ UNCHANGED <<mergeVars, banner, pendingVars, counts, timeVars, relayVars, budget>>

SubmitCard ==
    /\ Spend("ops")
    /\ \E payload \in Payloads : submitCard(Self, payload)
    /\ UNCHANGED <<mergeVars, banner, pendingVars, counts, timeVars, relayVars>>

DeleteCard ==
    /\ Spend("ops")
    /\ handleDeleteCard(Self)
    /\ UNCHANGED <<mergeVars, banner, pendingVars, counts, timeVars, relayVars>>

ToggleVote ==
    /\ Spend("ops")
    /\ handleVote(Self)
    /\ UNCHANGED <<mergeVars, banner, pendingVars, counts, timeVars, relayVars>>

StartReview ==
    /\ Spend("ops")
    /\ startReview(Self)
    /\ UNCHANGED <<mergeVars, banner, pendingVars, counts, timeVars, relayVars>>

Next ==
    \/ Connect
    \/ SocketOpen
    \/ Welcome
    \/ DeliverSnapshot
    \/ DeliverFrame
    \/ SocketClosing
    \/ SocketClose
    \/ SyncTimer
    \/ SubmitCard
    \/ DeleteCard
    \/ ToggleVote
    \/ StartReview

Spec == Init /\ [][Next]_vars

(***************************************************************************)
(* SpecDedup: the replica "a" as in Spec, with an environment that repeats *)
(* itself: up to MaxDeliveries frames of the peer are delivered, so that   *)
(* one opId may arrive twice, and a frame the replica has just written to  *)
(* its socket may come back to it, tagged with its own id as senderId.     *)
(***************************************************************************)
MaxDeliveries == 2

InitDedup ==
    /\ mLocal = createEmptyState
    /\ mRemote = createEmptyState
    /\ mPc = "idle"
    /\ mLR = NoResult
    /\ mRL = NoResult
    /\ state \in [Replicas -> StoredStates]
    /\ state[Peer] = createEmptyState
    /\ connState = [r \in Replicas |-> "disconnected"]
    /\ sock = [r \in Replicas |-> "NONE"]
    /\ reconnectAttempts = [r \in Replicas |-> 0]
    /\ opCounter = [r \in Replicas |-> 0]
    /\ isSyncing = [r \in Replicas |-> FALSE]
    /\ receivedStates = [r \in Replicas |-> <<>>]
    /\ bufferedOps = [r \in Replicas |-> <<>>]
    /\ seenOpIds = [r \in Replicas |-> {}]
    /\ sent = [r \in Replicas |-> <<>>]
    /\ ev = NoEvent
    /\ budget = [snapshots |-> 1, frames |-> MaxDeliveries, ops |-> MaxOps, sessions |-> 1]
    /\ participants = {}
    /\ toRelay = [r \in Replicas |-> <<>>]
    /\ toClient = [r \in Replicas |-> <<>>]
    /\ NoHub
    /\ NoTime
    /\ NoPresence

\* the op the replica wrote to its socket in the last step comes back to it
DeliverEcho ==
    /\ Receiving(Self)
    /\ sent[Self] # <<>>
    /\ sent[Self][1].type \in {"cardOp", "vote", "phaseChanged"}
    /\ handleMessage(Self, [sent[Self][1] EXCEPT !.senderId = Self])
    /\ UNCHANGED <<mergeVars, banner, pendingVars, counts, timeVars, relayVars, budget>>

NextDedup ==
    \/ Next
    \/ DeliverEcho

SpecDedup == InitDedup /\ [][NextDedup]_vars

(***************************************************************************)
(* SpecOps: replica "a" handed ops of every shape.  The page connects      *)
(* once; its handlers are handed up to MaxOps local card and vote ops      *)
(* with any author, phase and rev, and the socket delivers one op of the   *)
(* peer, on the peer's card or on the card of "a".                         *)
(***************************************************************************)
LocalCardOps ==
    {CardOpFrame(NoOpId, "", phase, action, TRUE, action = "delete", cardId, P1, authorId, rev) :
        phase \in Phases, action \in {"create", "edit", "delete"}, cardId \in {"c1", "c2"},
        authorId \in Replicas, rev \in 1..MaxRev}

LocalVoteOps ==
    {VoteFrame(NoOpId, "", phase, action, TRUE, action = "remove", cardId, voterId, rev) :
        phase \in Phases, action \in {"add", "remove"}, cardId \in {"c1", "c2"},
        voterId \in Replicas, rev \in 1..MaxRev}

\* the peer's ops on its own card, and its edits of the card "a" authored,
\* sent under its own name
ForeignOps ==
    PeerCardOps
    \cup {CardOpFrame(<<Peer, MaxRev + rv>>, Peer, "forming", "edit", TRUE, FALSE,
                      OwnCardId(Self), P2, Peer, rv) : rv \in 1..MaxRev}

InitOps ==
    /\ mLocal = createEmptyState
    /\ mRemote = createEmptyState
    /\ mPc = "idle"
    /\ mLR = NoResult
    /\ mRL = NoResult
    /\ state \in [Replicas -> StoredStates]
    /\ state[Peer] = createEmptyState
    /\ connState = [r \in Replicas |-> "disconnected"]
    /\ sock = [r \in Replicas |-> "NONE"]
    /\ reconnectAttempts = [r \in Replicas |-> 0]
    /\ opCounter = [r \in Replicas |-> 0]
    /\ isSyncing = [r \in Replicas |-> FALSE]
    /\ receivedStates = [r \in Replicas |-> <<>>]
    /\ bufferedOps = [r \in Replicas |-> <<>>]
    /\ seenOpIds = [r \in Replicas |-> {}]
    /\ sent = [r \in Replicas |-> <<>>]
    /\ ev = NoEvent
    /\ budget = [snapshots |-> 0, frames |-> 1, ops |-> MaxOps, sessions |-> 1]
    /\ participants = {}
    /\ toRelay = [r \in Replicas |-> <<>>]
    /\ toClient = [r \in Replicas |-> <<>>]
    /\ NoHub
    /\ NoTime
    /\ NoPresence

LocalCardOp ==
    /\ Spend("ops")
    /\ \E op \in LocalCardOps : localOp(Self, op)
    /\ UNCHANGED <<mergeVars, banner, pendingVars, counts, timeVars, relayVars>>

LocalVoteOp ==
    /\ Spend("ops")
    /\ \E op \in LocalVoteOps : localOp(Self, op)
    /\ UNCHANGED <<mergeVars, banner, pendingVars, counts, timeVars, relayVars>>

DeliverForeign ==
    /\ Receiving(Self)
    /\ Spend("frames")
    /\ \E m \in ForeignOps : handleMessage(Self, m)
    /\ UNCHANGED <<mergeVars, banner, pendingVars, counts, timeVars, relayVars>>

NextOps ==
    \/ Connect
    \/ SocketOpen
    \/ Welcome
    \/ SyncTimer
    \/ SocketClose
    \/ LocalCardOp
    \/ LocalVoteOp
    \/ DeliverForeign

SpecOps == InitOps /\ [][NextOps]_vars

(***************************************************************************)
(* SpecConn: the connection manager of replica "a" on a clock of seconds.  *)
(* initBoard has called connect().  The environment opens the socket,      *)
(* answers the hello with welcome, answers a ping with pong or does not,   *)
(* delivers one snapshot and closes the socket with any code at any time.  *)
(* The timers fire when they are due, the sync window ends at any time     *)
(* after it began, the user submits a card up to MaxOps times and the page *)
(* may call disconnect().                                                  *)
(***************************************************************************)
MaxSilence == 45

InitConn ==
    /\ mLocal = createEmptyState
    /\ mRemote = createEmptyState
    /\ mPc = "idle"
    /\ mLR = NoResult
    /\ mRL = NoResult
    /\ state = [r \in Replicas |-> createEmptyState]
    /\ connState = [r \in Replicas |-> IF r = Self THEN "connecting" ELSE "disconnected"]
    /\ sock = [r \in Replicas |-> IF r = Self THEN "CONNECTING" ELSE "NONE"]
    /\ reconnectAttempts = [r \in Replicas |-> 0]
    /\ opCounter = [r \in Replicas |-> 0]
    /\ isSyncing = [r \in Replicas |-> FALSE]
    /\ receivedStates = [r \in Replicas |-> <<>>]
    /\ bufferedOps = [r \in Replicas |-> <<>>]
    /\ seenOpIds = [r \in Replicas |-> {}]
    /\ sent = [r \in Replicas |-> <<>>]
    /\ ev = NoEvent
    /\ budget = [snapshots |-> 1, frames |-> 0, ops |-> MaxOps, sessions |-> 0]
    /\ participants = {}
    /\ toRelay = [r \in Replicas |-> <<>>]
    /\ toClient = [r \in Replicas |-> <<>>]
    /\ NoHub
    /\ NoTime
    /\ NoPresence

Timers(next) == timeouts' = [timeouts EXCEPT ![Self] = next]

Silence(seconds) == silence' = [silence EXCEPT ![Self] = seconds]

\* connection.js send: schedulePing after a frame written while ready
AfterSend ==
    Timers(IF sent'[Self] # <<>> /\ connState[Self] = "ready"
           THEN schedulePing(timeouts[Self]) ELSE timeouts[Self])

ConnOpen ==
    /\ onopen(Self)
    /\ UNCHANGED <<mergeVars, banner, pendingVars, counts, timeVars, relayVars, budget>>

\* handleMessage, welcome: startPing
ConnWelcome ==
    /\ connState[Self] = "handshaking"
    /\ sock[Self] = "OPEN"
    /\ handleMessage(Self, WelcomeFrame)
    /\ Timers(startPing(timeouts[Self]))
    /\ UNCHANGED <<mergeVars, banner, pendingVars, counts, relayVars, budget, reported, silence, inactivity>>

\* handleMessage, pong: the relay answers the pings sent so far
ConnPong ==
    /\ Receiving(Self)
    /\ silence[Self] # NoTimer
    /\ Timers(clearPongTimeout(timeouts[Self]))
    /\ Silence(NoTimer)
    /\ Sent(Self, <<>>)
    /\ Note(Self, "message", Frame("pong"), "", <<>>)
    /\ UNCHANGED <<state, connVars, opCounter, syncVars, seenOpIds, budget>>
    /\ UNCHANGED <<mergeVars, banner, pendingVars, counts, relayVars, reported, inactivity>>

\* the callback of schedulePing
PingTimer ==
    LET open == sock[Self] = "OPEN"
        t == timeouts[Self]
    IN /\ t.pingTimeout = 0
       /\ Timers(schedulePing(IF open THEN schedulePongTimeout(t) ELSE t))
       /\ Silence(IF open /\ silence[Self] = NoTimer THEN 0 ELSE silence[Self])
       /\ Sent(Self, IF open THEN <<Frame("ping")>> ELSE <<>>)
       /\ Note(Self, "ping", Frame(""), "", <<>>)
       /\ UNCHANGED <<state, connVars, opCounter, syncVars, seenOpIds, budget>>
       /\ UNCHANGED <<mergeVars, banner, pendingVars, counts, relayVars, reported, inactivity>>

\* the callback of schedulePongTimeout: socket?.close()
PongTimer ==
    /\ timeouts[Self].pongTimeout = 0
    /\ Timers(clearPongTimeout(timeouts[Self]))
    /\ IF sock[Self] = "OPEN" THEN closing(Self)
       ELSE /\ Sent(Self, <<>>)
            /\ Note(Self, "closing", Frame(""), "", <<>>)
            /\ UNCHANGED <<state, connVars, opCounter, syncVars, seenOpIds>>
    /\ UNCHANGED <<mergeVars, banner, pendingVars, counts, relayVars, budget, reported, silence, inactivity>>

\* the callback of scheduleReconnect
ReconnectTimer ==
    /\ timeouts[Self].reconnectTimeout = 0
    /\ Timers([timeouts[Self] EXCEPT !.reconnectTimeout = NoTimer])
    /\ connect(Self)
    /\ UNCHANGED <<mergeVars, banner, pendingVars, counts, relayVars, budget, reported, silence, inactivity>>

\* socket.onclose with its timers: cleanup, onError for a policy close,
\* scheduleReconnect otherwise unless the state is closed
ConnClose ==
    \E code \in CloseCodes :
        LET t == cleanup(timeouts[Self])
            n == reconnectAttempts[Self]
            terminal == code = 1008 \/ code = 4000
            reconnects == ~terminal /\ connState[Self] # "closed"
        IN /\ onclose(Self, code)
           /\ Timers(IF reconnects THEN scheduleReconnect(t, n) ELSE t)
           /\ reported' = [reported EXCEPT ![Self] =
                              IF terminal THEN "Connection rejected"
                              ELSE IF reconnects /\ n >= RECONNECT_MAX_ATTEMPTS
                              THEN "Connection lost - max reconnect attempts reached"
                              ELSE @]
           /\ Silence(NoTimer)
           /\ UNCHANGED <<mergeVars, banner, pendingVars, counts, relayVars, budget, inactivity>>

Disconnect ==
    /\ disconnect(Self)
    /\ Timers(cleanup(timeouts[Self]))
    /\ Silence(NoTimer)
    /\ UNCHANGED <<mergeVars, banner, pendingVars, counts, relayVars, budget, reported, inactivity>>

ConnSnapshot ==
    /\ Receiving(Self)
    /\ Spend("snapshots")
    /\ \E m \in SnapshotFrames : handleMessage(Self, m)
    /\ AfterSend
    /\ UNCHANGED <<mergeVars, banner, pendingVars, counts, relayVars, reported, silence, inactivity>>

ConnSyncTimer ==
    /\ completeSync(Self)
    /\ AfterSend
    /\ UNCHANGED <<mergeVars, banner, pendingVars, counts, relayVars, budget, reported, silence, inactivity>>

ConnSubmit ==
    /\ Spend("ops")
    /\ \E payload \in Payloads : submitCard(Self, payload)
    /\ AfterSend
    /\ UNCHANGED <<mergeVars, banner, pendingVars, counts, relayVars, reported, silence, inactivity>>

Due(t) == t.reconnectTimeout = 0 \/ t.pingTimeout = 0 \/ t.pongTimeout = 0

Pending(t) == t.reconnectTimeout > 0 \/ t.pingTimeout > 0 \/ t.pongTimeout > 0

Elapse(seconds) == IF seconds > 0 THEN seconds - 1 ELSE seconds

\* a second passes: no timer is due, some timer is pending
Tick ==
    LET t == timeouts[Self]
    IN /\ ~Due(t)
       /\ Pending(t)
       /\ Timers([reconnectTimeout |-> Elapse(t.reconnectTimeout),
                  pingTimeout |-> Elapse(t.pingTimeout),
                  pongTimeout |-> Elapse(t.pongTimeout)])
       /\ Silence(IF silence[Self] = NoTimer THEN NoTimer
                  ELSE Min(silence[Self] + 1, MaxSilence))
       /\ Sent(Self, <<>>)
       /\ Note(Self, "tick", Frame(""), "", <<>>)
       /\ UNCHANGED <<state, connVars, opCounter, syncVars, seenOpIds, budget>>
       /\ UNCHANGED <<mergeVars, banner, pendingVars, counts, relayVars, reported, inactivity>>

NextConn ==
    \/ ConnOpen
    \/ ConnWelcome
    \/ ConnPong
    \/ PingTimer
    \/ PongTimer
    \/ ReconnectTimer
    \/ ConnClose
    \/ Disconnect
    \/ ConnSnapshot
    \/ ConnSyncTimer
    \/ ConnSubmit
    \/ Tick

SpecConn == InitConn /\ [][NextConn]_vars

(***************************************************************************)
(* SpecBoard: the replicas "a" and "b" joined through the relay.  Each     *)
(* page starts from a stored state and connects once; the relay registers  *)
(* it at its hello and routes what the replicas send.  The user of a       *)
(* replica may act until both replicas have joined; no socket closes.      *)
(***************************************************************************)
Others(r) == participants \ {r}

\* the frame appended to the socket of every replica in targets
Fanout(queues, targets, frame) ==
    [x \in Replicas |-> IF x \in targets THEN Append(queues[x], frame) ELSE queues[x]]

\* HandleConnection from WaitForHello on: register the session, SendWelcome,
\* BroadcastParticipantsUpdate to the others
HandleConnection(r) ==
    /\ r \notin participants
    /\ toRelay[r] # <<>>
    /\ Head(toRelay[r]).type = "hello"
    /\ Head(toRelay[r]).clientId = r
    /\ toRelay' = [toRelay EXCEPT ![r] = Tail(@)]
    /\ participants' = participants \cup {r}
    /\ toClient' = Fanout([toClient EXCEPT ![r] = Append(@, WelcomeFrame)],
                          Others(r), ParticipantsUpdateFrame(""))
    /\ UNCHANGED <<mergeVars, banner, pendingVars, counts, timeVars, replicaVars, hubVars>>

\* ReceiveMessages and HandleMessage for one frame of a registered session:
\* HandleSyncState routes a syncState to its target or to every participant;
\* BroadcastMessage hands an op, as received, to the others
HandleMessage(r) ==
    LET m == Head(toRelay[r])
        targets == IF m.type = "syncState"
                   THEN (IF m.targetClientId # "" THEN participants \cap {m.targetClientId}
                         ELSE participants)
                   ELSE IF m.type \in {"cardOp", "vote", "phaseChanged"} THEN Others(r)
                   ELSE {}
    IN /\ r \in participants
       /\ toRelay[r] # <<>>
       /\ toRelay' = [toRelay EXCEPT ![r] = Tail(@)]
       /\ toClient' = Fanout(toClient, targets, m)
       /\ UNCHANGED <<mergeVars, banner, pendingVars, counts, timeVars, replicaVars, participants, hubVars>>

InitBoard ==
    /\ mLocal = createEmptyState
    /\ mRemote = createEmptyState
    /\ mPc = "idle"
    /\ mLR = NoResult
    /\ mRL = NoResult
    /\ state \in [Replicas -> StoredStates]
    /\ connState = [r \in Replicas |-> "disconnected"]
    /\ sock = [r \in Replicas |-> "NONE"]
    /\ reconnectAttempts = [r \in Replicas |-> 0]
    /\ opCounter = [r \in Replicas |-> 0]
    /\ isSyncing = [r \in Replicas |-> FALSE]
    /\ receivedStates = [r \in Replicas |-> <<>>]
    /\ bufferedOps = [r \in Replicas |-> <<>>]
    /\ seenOpIds = [r \in Replicas |-> {}]
    /\ sent = [r \in Replicas |-> <<>>]
    /\ ev = NoEvent
    /\ budget = [snapshots |-> 0, frames |-> 0, ops |-> MaxOps, sessions |-> 0]
    /\ participants = {}
    /\ toRelay = [r \in Replicas |-> <<>>]
    /\ toClient = [r \in Replicas |-> <<>>]
    /\ NoHub
    /\ NoTime
    /\ NoPresence

\* what the replica wrote in this step travels to the relay
Written(r) ==
    /\ toRelay' = [toRelay EXCEPT ![r] = @ \o sent'[r]]
    /\ UNCHANGED <<mergeVars, banner, pendingVars, counts, timeVars, participants, hubVars>>

Joined(r) == connState[r] = "ready" /\ ~isSyncing[r]

BoardConnect(r) ==
    /\ connState[r] = "disconnected"
    /\ connect(r)
    /\ Written(r)
    /\ UNCHANGED <<budget, toClient>>

BoardOpen(r) ==
    /\ onopen(r)
    /\ Written(r)
    /\ UNCHANGED <<budget, toClient>>

\* socket.onmessage for the next frame the relay wrote to the replica
BoardReceive(r) ==
    /\ toClient[r] # <<>>
    /\ handleMessage(r, Head(toClient[r]))
    /\ toClient' = [toClient EXCEPT ![r] = Tail(@)]
    /\ Written(r)
    /\ UNCHANGED budget

BoardSyncTimer(r) ==
    /\ completeSync(r)
    /\ Written(r)
    /\ UNCHANGED <<budget, toClient>>

BoardUser(r) ==
    /\ \E x \in Replicas : ~Joined(x)
    /\ Spend("ops")
    /\ \/ \E payload \in Payloads : submitCard(r, payload)
       \/ handleDeleteCard(r)
       \/ handleVote(r)
       \/ startReview(r)
    /\ Written(r)
    /\ UNCHANGED toClient

NextBoard ==
    \E r \in Replicas :
        \/ BoardConnect(r)
        \/ BoardOpen(r)
        \/ HandleConnection(r)
        \/ HandleMessage(r)
        \/ BoardReceive(r)
        \/ BoardSyncTimer(r)
        \/ BoardUser(r)

SpecBoard == InitBoard /\ [][NextBoard]_vars

(***************************************************************************)
(* SpecRelay: BoardHub for one board id, handler by handler.  A handler    *)
(* holds the BoardState object GetOrAdd gave it; the capacity check, the   *)
(* wait for hello, the registration with its welcome, the announcement to  *)
(* the others, each received frame and the finally block are steps that    *)
(* handlers of different connections interleave.  The board starts empty   *)
(* or with sessions that joined earlier; those send nothing, and only the  *)
(* first of them leaves.                                                   *)
(***************************************************************************)
CrowdSizes == {0, MaxParticipantsPerBoard - 1, MaxParticipantsPerBoard}

HelloIds == {"a", "b"}

Movers == Conns \cup {CrowdIds[1]}

\* WebSocketCloseStatus
NormalClosure == 1000

ProtocolError == 1002

PolicyViolation == 1008

NoParticipants == [c \in {} |-> [socket |-> "", isReady |-> FALSE]]

ParticipantState(socket) == [socket |-> socket, isReady |-> FALSE]

TryAdd(P, clientId, participant) ==
    [c \in DOMAIN P \cup {clientId} |-> IF c = clientId THEN participant ELSE P[c]]

\* a finally block that leaves the session in the registry
TryRemove_Keep(P, clientId) == P

TryRemove(P, clientId) == [c \in DOMAIN P \ {clientId} |-> P[c]]

ReadyCount(P) == Cardinality({c \in DOMAIN P : P[c].isReady})

\* SendRaw and SendJson: the frame is written only to an Open socket
SendRaw(socket, frame) ==
    IF webSocket[socket] = "Open" THEN {[to |-> socket, frame |-> frame]} ELSE {}

\* a rejection that sends no error frame
SendError_Nothing(socket, message) == {}

SendError(socket, message) == SendRaw(socket, [Frame("error") EXCEPT !.message = message])

SendWelcome(socket, P) ==
    SendRaw(socket, [Frame("welcome") EXCEPT !.participantCount = Cardinality(DOMAIN P),
                                              !.readyCount = ReadyCount(P)])

BroadcastParticipantsUpdate(P, excludeClientId) ==
    LET update == [Frame("participantsUpdate") EXCEPT
                       !.participantCount = Cardinality(DOMAIN P),
                       !.readyCount = ReadyCount(P)]
    IN UNION {SendRaw(P[c].socket, update) : c \in DOMAIN P \ {excludeClientId}}

BroadcastMessage(P, excludeClientId, message) ==
    UNION {SendRaw(P[c].socket, message) : c \in DOMAIN P \ {excludeClientId}}

\* a syncState goes to its target if it names one that is registered, and to
\* every participant if it names none
HandleSyncState(P, message) ==
    IF message.targetClientId # ""
    THEN (IF message.targetClientId \in DOMAIN P
          THEN SendRaw(P[message.targetClientId].socket, message) ELSE {})
    ELSE UNION {SendRaw(P[c].socket, message) : c \in DOMAIN P}

\* the participants after setReady: the property read is "ready"
HandleSetReady(P, clientId, message) ==
    IF message.hasReady /\ clientId \in DOMAIN P
    THEN [P EXCEPT ![clientId].isReady = message.ready] ELSE P

\* what HandleMessage writes for a frame of the session senderId
Dispatch(P, senderId, message) ==
    CASE message.type = "ping" ->
            (IF senderId \in DOMAIN P THEN SendRaw(P[senderId].socket, Frame("pong")) ELSE {})
      [] message.type = "setReady" ->
            (IF message.hasReady /\ senderId \in DOMAIN P
             THEN BroadcastParticipantsUpdate(HandleSetReady(P, senderId, message), senderId)
             ELSE {})
      [] message.type = "syncState" -> HandleSyncState(P, message)
      [] message.type \in {"cardOp", "vote", "phaseChanged"} ->
            BroadcastMessage(P, senderId, message)
      [] OTHER -> {}

\* the frames sessions send once joined: setReady as the page sends it
\* (isReady) and with the property the relay reads (ready), snapshots with and
\* without a target, ops as the page broadcasts them
ClientFrames ==
    {[Frame("setReady") EXCEPT !.hasIsReady = TRUE, !.isReady = TRUE],
     [Frame("setReady") EXCEPT !.hasReady = TRUE, !.ready = TRUE],
     SyncStateFrame("", createEmptyState),
     SyncStateFrame("a", createEmptyState),
     CardOpFrame(<<"a", 1>>, "", "forming", "create", TRUE, FALSE, "c1", P1, "a", 1),
     PhaseChangedFrame(<<"a", 2>>, "", "reviewing")}

InitRelay ==
    /\ mLocal = createEmptyState
    /\ mRemote = createEmptyState
    /\ mPc = "idle"
    /\ mLR = NoResult
    /\ mRL = NoResult
    /\ NoReplicas
    /\ NoTime
    /\ NoPresence
    /\ \E n \in CrowdSizes :
          /\ boards = IF n = 0 THEN 0 ELSE 1
          /\ boardStates = IF n = 0 THEN <<>>
                           ELSE <<[c \in Crowd(n) |-> ParticipantState(c)]>>
          /\ handler = [k \in Sockets |->
                           IF k \in Crowd(n) THEN [pc |-> "joined", board |-> 1, clientId |-> k]
                           ELSE IF k \in Conns THEN [pc |-> "new", board |-> 0, clientId |-> ""]
                           ELSE NoHandler]
          /\ webSocket = [k \in Sockets |-> IF k \in Crowd(n) \cup Conns THEN "Open" ELSE "Closed"]
    /\ out = {}
    /\ hev = NoHubEvent

\* connection.js handleMessage, welcome and participantsUpdate, in the
\* connections observed: the counts of the frame are stored
Received(c, writes) ==
    [k \in DOMAIN c |->
        LET told == {w \in writes : w.to = k /\ w.frame.type \in {"welcome", "participantsUpdate"}}
        IN IF told = {} THEN c[k]
           ELSE LET w == CHOOSE w \in told : TRUE
                IN [participantCount |-> w.frame.participantCount,
                    readyCount |-> w.frame.readyCount]]

Did(k, kind, frame, close) ==
    /\ hev' = [conn |-> k, kind |-> kind, frame |-> frame, close |-> close]
    /\ counts' = Received(counts, out')
    /\ UNCHANGED <<mergeVars, banner, pendingVars, replicaVars, participants, toRelay, toClient>>
    /\ UNCHANGED <<timeouts, reported, silence>>

InactivityTimeoutSeconds == 30

InactivityCheckSeconds == 5

\* participant.LastActivity = DateTime.UtcNow
Active(k) == inactivity' = [inactivity EXCEPT ![k].inactiveSeconds = 0]

\* the PeriodicTimer of MonitorInactivity, armed for its next tick or disposed
Monitor(k, seconds) == inactivity' = [inactivity EXCEPT ![k].timer = seconds]

At(k, pc, board, clientId) ==
    handler' = [handler EXCEPT ![k] = [pc |-> pc, board |-> board, clientId |-> clientId]]

CloseAsync(k) == webSocket' = [webSocket EXCEPT ![k] = "Closed"]

\* HandleConnection up to WaitForHello: GetOrAdd of the board, then the
\* capacity check, which rejects with an error frame and a close
AcceptConnection(k) ==
    LET created == boards = 0
        b == IF created THEN Len(boardStates) + 1 ELSE boards
        objects == IF created THEN Append(boardStates, NoParticipants) ELSE boardStates
        full == Cardinality(DOMAIN objects[b]) >= MaxParticipantsPerBoard
    IN /\ handler[k].pc = "new"
       /\ boards' = b
       /\ boardStates' = objects
       /\ UNCHANGED inactivity
       /\ IF full
          THEN /\ out' = SendError(k, "Board is full (max 20 participants)")
               /\ CloseAsync(k)
               /\ At(k, "done", b, "")
               /\ Did(k, "full", Frame(""), PolicyViolation)
          ELSE /\ out' = {}
               /\ UNCHANGED webSocket
               /\ At(k, "hello", b, "")
               /\ Did(k, "accept", Frame(""), 0)

\* WaitForHello returns a clientId: TryAdd, and then either the rejection of
\* a duplicate or SendWelcome
WaitForHello(k) ==
    LET b == handler[k].board
        P == boardStates[b]
    IN /\ handler[k].pc = "hello"
       /\ webSocket[k] = "Open"
       /\ \E clientId \in HelloIds :
             IF clientId \in DOMAIN P
             THEN /\ out' = SendError(k, "Client ID already connected to this board")
                  /\ CloseAsync(k)
                  /\ At(k, "done", b, clientId)
                  /\ Did(k, "duplicate", HelloFrame(clientId), PolicyViolation)
                  /\ UNCHANGED <<boards, boardStates, inactivity>>
             ELSE /\ boardStates' = [boardStates EXCEPT
                                        ![b] = TryAdd(P, clientId, ParticipantState(k))]
                  /\ out' = SendWelcome(k, boardStates'[b])
                  /\ At(k, "welcomed", b, clientId)
                  /\ Did(k, "welcome", HelloFrame(clientId), 0)
                  /\ Active(k)
                  /\ UNCHANGED <<boards, webSocket>>

\* a property of a JSON object that holds null, or a number, where a string
\* is expected
JsonNull == "#null"

JsonNumber == "#number"

\* what the first message of a connection may be when it is not a hello with
\* a string clientId: "text" with its frame, "binary", or "timeout" when
\* HelloTimeoutSeconds pass without a message
FirstMessages ==
    [kind : {"text"},
     frame : {[Frame("") EXCEPT !.json = "invalid"],
              [Frame("") EXCEPT !.json = "array"],
              Frame("cardOp"),
              Frame("hello"),
              HelloFrame(JsonNull),
              HelloFrame(JsonNumber)}]
    \cup [kind : {"binary", "timeout"}, frame : {Frame("")}]

\* WaitForHello on a first message of FirstMessages: "close" when it falls
\* through to CloseAsync(ProtocolError), "null" when it returns null before
\* that, "throw" when an InvalidOperationException of JsonElement leaves it
\* (TryGetProperty on a root that is no object, GetString on a number)
HelloOutcome(first) ==
    LET f == first.frame
    IN IF first.kind # "text" \/ f.json = "invalid" THEN "close"
       ELSE IF f.json # "object" \/ f.type = JsonNumber THEN "throw"
       ELSE IF f.type # "hello" \/ f.clientId = "" THEN "close"
       ELSE IF f.clientId = JsonNull THEN "null"
       ELSE "throw"

\* WaitForHello returns no clientId and the handler returns.  A socket that
\* the client closed is left as it is; one that WaitForHello leaves open is
\* disposed of by the endpoint (Program.cs, using var webSocket) without a
\* close frame
NoHello(k) ==
    /\ handler[k].pc = "hello"
    /\ out' = {}
    /\ At(k, "done", handler[k].board, "")
    /\ IF webSocket[k] = "Open"
       THEN \E first \in FirstMessages :
               IF HelloOutcome(first) = "close"
               THEN /\ CloseAsync(k)
                    /\ Did(k, "nohello", first.frame, ProtocolError)
               ELSE /\ webSocket' = [webSocket EXCEPT ![k] = "Aborted"]
                    /\ Did(k, "nohello", first.frame, 0)
       ELSE /\ UNCHANGED webSocket
            /\ Did(k, "closed-in-hello", Frame(""), 0)
    /\ UNCHANGED <<boards, boardStates, inactivity>>

\* BroadcastParticipantsUpdate(board, clientId) after the welcome, and the
\* start of ReceiveMessages, which starts MonitorInactivity
AnnounceJoin(k) ==
    /\ handler[k].pc = "welcomed"
    /\ Monitor(k, InactivityCheckSeconds)
    /\ out' = BroadcastParticipantsUpdate(boardStates[handler[k].board], handler[k].clientId)
    /\ At(k, "joined", handler[k].board, handler[k].clientId)
    /\ Did(k, "announce", Frame(""), 0)
    /\ UNCHANGED <<boards, boardStates, webSocket>>

\* ReceiveMessages: one text frame and its HandleMessage
ReceiveMessages(k) ==
    LET b == handler[k].board
        P == boardStates[b]
    IN /\ k \in Conns
       /\ handler[k].pc = "joined"
       /\ webSocket[k] = "Open"
       /\ \E message \in ClientFrames :
             /\ boardStates' = [boardStates EXCEPT ![b] =
                                   IF message.type = "setReady"
                                   THEN HandleSetReady(P, handler[k].clientId, message) ELSE P]
             /\ out' = Dispatch(P, handler[k].clientId, message)
             /\ Did(k, "message", message, 0)
       /\ Active(k)
       /\ UNCHANGED <<boards, handler, webSocket>>

\* the connection ends: the client closes, the socket fails, or
\* MonitorInactivity closes it
CloseReasons(k) ==
    IF handler[k].pc = "joined" THEN {"client", "error", "inactivity"} ELSE {"client", "error"}

Ends(k, reason) ==
    /\ handler[k].pc \in {"hello", "welcomed", "joined"}
    /\ webSocket[k] = "Open"
    /\ CloseAsync(k)
    /\ out' = {}
    /\ Did(k, reason, Frame(""), IF reason = "error" THEN 0 ELSE NormalClosure)
    /\ UNCHANGED <<boards, boardStates, handler>>

SocketEnds(k) ==
    /\ \E reason \in CloseReasons(k) : Ends(k, reason)
    /\ UNCHANGED inactivity

\* a write of the fan-out of a frame fails: SendAsync throws and leaves the
\* peer's socket Aborted.  BroadcastMessage and BroadcastParticipantsUpdate
\* start every write and then rethrow from Task.WhenAll; the foreach of
\* HandleSyncState awaits the writes one by one and stops at the one that
\* throws, with any of the other peers written to before it.  Nothing
\* between SendAsync and ReceiveMessages catches the exception, so the loop
\* of the sender ends: "faulted"
ReceiveFails(k) ==
    LET b == handler[k].board
        P == boardStates[b]
    IN /\ k \in Conns
       /\ handler[k].pc = "joined"
       /\ webSocket[k] = "Open"
       /\ \E message \in ClientFrames :
             LET writes == Dispatch(P, handler[k].clientId, message)
                 targets == {w.to : w \in writes}
                 oneByOne == message.type = "syncState" /\ message.targetClientId = ""
             IN \E failing \in SUBSET targets \ {{}} :
                   \E reached \in SUBSET (targets \ failing) :
                      /\ oneByOne => Cardinality(failing) = 1
                      /\ ~oneByOne => reached = targets \ failing
                      /\ out' = {w \in writes : w.to \in reached}
                      /\ webSocket' = [q \in Sockets |->
                                          IF q \in failing THEN "Aborted" ELSE webSocket[q]]
                      /\ boardStates' = [boardStates EXCEPT ![b] =
                                            IF message.type = "setReady"
                                            THEN HandleSetReady(P, handler[k].clientId, message)
                                            ELSE P]
                      /\ Did(k, "send-failed", message, 0)
       /\ At(k, "faulted", b, handler[k].clientId)
       /\ Active(k)
       /\ UNCHANGED boards

\* the finally block of HandleConnection, reached when the socket is no
\* longer Open or an exception left ReceiveMessages; the endpoint then
\* disposes of a socket still Open (Program.cs, using var webSocket)
Teardown(k) ==
    LET b == handler[k].board
        P == TryRemove(boardStates[b], handler[k].clientId)
    IN /\ \/ handler[k].pc = "joined" /\ webSocket[k] # "Open"
          \/ handler[k].pc = "faulted"
       /\ boardStates' = [boardStates EXCEPT ![b] = P]
       /\ out' = BroadcastParticipantsUpdate(P, handler[k].clientId)
       /\ boards' = IF DOMAIN P = {} THEN 0 ELSE boards
       /\ At(k, "done", b, handler[k].clientId)
       /\ Did(k, "closed", Frame(""), 0)
       /\ Monitor(k, NoTimer)
       /\ webSocket' = [webSocket EXCEPT ![k] = IF @ = "Open" THEN "Aborted" ELSE @]

NextRelay ==
    \E k \in Movers :
        \/ AcceptConnection(k)
        \/ WaitForHello(k)
        \/ NoHello(k)
        \/ AnnounceJoin(k)
        \/ ReceiveMessages(k)
        \/ SocketEnds(k)
        \/ Teardown(k)

SpecRelay == InitRelay /\ [][NextRelay]_vars

\* a handler that can take its next step without waiting for its client
\* takes it
FairRelay ==
    \A k \in Movers : WF_vars(AnnounceJoin(k)) /\ WF_vars(Teardown(k))

\* the relay with a board one session short of full and two connections
\* arriving, every handler taking the steps it can take on its own
InitRelayFair ==
    /\ mLocal = createEmptyState
    /\ mRemote = createEmptyState
    /\ mPc = "idle"
    /\ mLR = NoResult
    /\ mRL = NoResult
    /\ NoReplicas
    /\ NoTime
    /\ NoPresence
    /\ boards = 1
    /\ boardStates = <<[c \in Crowd(MaxParticipantsPerBoard - 1) |-> ParticipantState(c)]>>
    /\ handler = [k \in Sockets |->
                     IF k \in Crowd(MaxParticipantsPerBoard - 1)
                     THEN [pc |-> "joined", board |-> 1, clientId |-> k]
                     ELSE IF k \in {ConnIds[1], ConnIds[2]}
                     THEN [pc |-> "new", board |-> 0, clientId |-> ""]
                     ELSE NoHandler]
    /\ webSocket = [k \in Sockets |->
                       IF k \in Crowd(MaxParticipantsPerBoard - 1) \cup {ConnIds[1], ConnIds[2]}
                       THEN "Open" ELSE "Closed"]
    /\ out = {}
    /\ hev = NoHubEvent

SpecRelayFair == InitRelayFair /\ [][NextRelay]_vars /\ FairRelay

(***************************************************************************)
(* SpecInactivity: the relay on a clock of seconds, with one connection    *)
(* to an empty relay.  A connection is closed by its client, by an error   *)
(* or by MonitorInactivity, whose timer ticks every InactivityCheckSeconds *)
(* from the start of ReceiveMessages.                                      *)
(***************************************************************************)
MaxIdle == 40

Timed == {ConnIds[1]}

InitInactivity ==
    /\ mLocal = createEmptyState
    /\ mRemote = createEmptyState
    /\ mPc = "idle"
    /\ mLR = NoResult
    /\ mRL = NoResult
    /\ NoReplicas
    /\ NoTime
    /\ NoPresence
    /\ boards = 0
    /\ boardStates = <<>>
    /\ handler = [k \in Sockets |->
                     IF k \in Timed THEN [pc |-> "new", board |-> 0, clientId |-> ""]
                     ELSE NoHandler]
    /\ webSocket = [k \in Sockets |-> IF k \in Timed THEN "Open" ELSE "Closed"]
    /\ out = {}
    /\ hev = NoHubEvent

Expired_AtFirstCheck(inactiveSeconds) == inactiveSeconds >= InactivityCheckSeconds

Expired(inactiveSeconds) == inactiveSeconds >= InactivityTimeoutSeconds

\* one tick of the PeriodicTimer of MonitorInactivity
MonitorInactivity(k) ==
    LET found == handler[k].clientId \in DOMAIN boardStates[handler[k].board]
        expired == found /\ Expired(inactivity[k].inactiveSeconds)
    IN /\ handler[k].pc = "joined"
       /\ inactivity[k].timer = 0
       /\ IF expired /\ webSocket[k] = "Open"
          THEN Ends(k, "inactivity")
          ELSE /\ out' = {}
               /\ Did(k, "monitor", Frame(""), 0)
               /\ UNCHANGED <<boards, boardStates, handler, webSocket>>
       /\ Monitor(k, IF expired THEN NoTimer ELSE InactivityCheckSeconds)

\* the client closes the connection, or the socket fails
ClientEnds(k) ==
    /\ \E reason \in {"client", "error"} : Ends(k, reason)
    /\ UNCHANGED inactivity

\* a second passes: no tick of a PeriodicTimer is due, some timer runs
TickRelay ==
    /\ \A k \in Timed : inactivity[k].timer # 0
    /\ \E k \in Timed : inactivity[k].timer > 0
    /\ inactivity' =
          [k \in Sockets |->
              [inactiveSeconds |-> IF handler[k].pc \in {"welcomed", "joined"}
                                  THEN Min(inactivity[k].inactiveSeconds + 1, MaxIdle)
                                  ELSE inactivity[k].inactiveSeconds,
               timer |-> Elapse(inactivity[k].timer)]]
    /\ out' = {}
    /\ hev' = [NoHubEvent EXCEPT !.kind = "tick"]
    /\ UNCHANGED <<mergeVars, banner, pendingVars, counts, replicaVars, participants, toRelay, toClient>>
    /\ UNCHANGED <<timeouts, reported, silence, boards, boardStates, handler, webSocket>>

NextInactivity ==
    \/ \E k \in Timed :
          \/ AcceptConnection(k)
          \/ WaitForHello(k)
          \/ AnnounceJoin(k)
          \/ ReceiveMessages(k)
          \/ ClientEnds(k)
          \/ MonitorInactivity(k)
          \/ Teardown(k)
    \/ TickRelay

SpecInactivity == InitInactivity /\ [][NextInactivity]_vars

(***************************************************************************)
(* quorumNeeded (app.js).  Math.ceil(0.6 * participantCount) is computed   *)
(* as JavaScript computes it: the literal 0.6 is the double                *)
(* 0x3FE3333333333333, that is 0x13333333333333 * 2^-53; the product is    *)
(* rounded to 53 significant bits, ties to even, and then ceil is taken.   *)
(* A number is the sequence of its bits, least significant first, and      *)
(* stands for its value times 2^-53.                                       *)
(***************************************************************************)
SignificandBits == 53

ProductBits == SignificandBits + 8

SixTenths ==
    [i \in 1..SignificandBits |->
        IF i = SignificandBits \/ (i - 1) % 4 \in {0, 1} THEN 1 ELSE 0]

\* the bits i, i+1, ... of n * x
RECURSIVE Scale(_, _, _, _)
Scale(x, n, i, carry) ==
    IF i > ProductBits THEN <<>>
    ELSE LET s == (IF i <= Len(x) THEN x[i] * n ELSE 0) + carry
         IN <<s % 2>> \o Scale(x, n, i + 1, s \div 2)

\* position of the most significant 1, 0 when there is none
Top(p) == IF \E i \in 1..Len(p) : p[i] = 1
          THEN CHOOSE i \in 1..Len(p) : p[i] = 1 /\ \A j \in (i + 1)..Len(p) : p[j] = 0
          ELSE 0

\* p + 2^(j-1), for a p whose bits below j are 0
AddBit(p, j) ==
    LET z == CHOOSE i \in j..Len(p) : p[i] = 0 /\ \A m \in j..(i - 1) : p[m] = 1
    IN [i \in 1..Len(p) |-> IF i < j THEN p[i] ELSE IF i < z THEN 0 ELSE IF i = z THEN 1 ELSE p[i]]

\* round to nearest, ties to even, on SignificandBits bits
RoundToDouble(p) ==
    LET k == Top(p) - SignificandBits
    IN IF k <= 0 THEN p
       ELSE LET half == p[k] = 1
                sticky == \E i \in 1..(k - 1) : p[i] = 1
                odd == p[k + 1] = 1
                kept == [i \in 1..Len(p) |-> IF i <= k THEN 0 ELSE p[i]]
            IN IF half /\ (sticky \/ odd) THEN AddBit(kept, k + 1) ELSE kept

RECURSIVE Whole(_, _)
\* the value of the bits i, i+1, ... of p, bit i counting 1
Whole(p, i) == IF i > Len(p) THEN 0 ELSE p[i] + 2 * Whole(p, i + 1)

\* mutant: Math.floor
Ceil_Floor(p) == Whole(p, SignificandBits + 1)

\* Math.ceil
Ceil(p) ==
    Whole(p, SignificandBits + 1)
    + (IF \E i \in 1..SignificandBits : p[i] = 1 THEN 1 ELSE 0)

quorumNeeded(participantCount) ==
    IF participantCount <= 2 THEN participantCount
    ELSE Ceil(RoundToDouble(Scale(SixTenths, participantCount, 1, 0)))

\* updateQuorumBanner: nothing is worked out once the phase is reviewing
updateQuorumBanner(currentPhase, participantCount, readyCount) ==
    IF currentPhase = "reviewing" THEN [banner EXCEPT !.visible = FALSE]
    ELSE LET needed == quorumNeeded(participantCount)
         IN [participantCount |-> participantCount, readyCount |-> readyCount,
             needed |-> needed,
             visible |-> participantCount > 0 /\ readyCount >= needed]

(***************************************************************************)
(* SpecQuorum: the page of replica "a" told participant and ready counts   *)
(* of every size a board allows, in any order, and its user starting the   *)
(* review when the banner offers it.                                       *)
(***************************************************************************)
InitQuorum ==
    /\ mLocal = createEmptyState
    /\ mRemote = createEmptyState
    /\ mPc = "idle"
    /\ mLR = NoResult
    /\ mRL = NoResult
    /\ state = [r \in Replicas |-> createEmptyState]
    /\ connState = [r \in Replicas |-> "disconnected"]
    /\ sock = [r \in Replicas |-> "NONE"]
    /\ reconnectAttempts = [r \in Replicas |-> 0]
    /\ opCounter = [r \in Replicas |-> 0]
    /\ isSyncing = [r \in Replicas |-> FALSE]
    /\ receivedStates = [r \in Replicas |-> <<>>]
    /\ bufferedOps = [r \in Replicas |-> <<>>]
    /\ seenOpIds = [r \in Replicas |-> {}]
    /\ sent = [r \in Replicas |-> <<>>]
    /\ ev = NoEvent
    /\ budget = [snapshots |-> 0, frames |-> 0, ops |-> MaxOps, sessions |-> 0]
    /\ participants = {}
    /\ toRelay = [r \in Replicas |-> <<>>]
    /\ toClient = [r \in Replicas |-> <<>>]
    /\ NoHub
    /\ NoTime
    /\ NoPresence

\* the onParticipantsUpdate callback of the page
QuorumUpdate ==
    /\ \E participantCount \in 0..MaxParticipantsPerBoard :
          \E readyCount \in 0..participantCount :
             banner' = updateQuorumBanner(state[Self].phase, participantCount, readyCount)
    /\ Sent(Self, <<>>)
    /\ Note(Self, "participants", Frame("participantsUpdate"), "", <<>>)
    /\ UNCHANGED <<mergeVars, timeVars, relayVars, counts, pendingVars>>
    /\ UNCHANGED <<state, connVars, opCounter, syncVars, seenOpIds, budget>>

\* the start-review button of the banner
QuorumStartReview ==
    /\ banner.visible
    /\ Spend("ops")
    /\ startReview(Self)
    /\ banner' = [banner EXCEPT !.visible = FALSE]
    /\ UNCHANGED <<mergeVars, timeVars, relayVars, counts, pendingVars>>

NextQuorum ==
    \/ QuorumUpdate
    \/ QuorumStartReview

SpecQuorum == InitQuorum /\ [][NextQuorum]_vars

(***************************************************************************)
(* SpecFanout: the relay with two sessions joined earlier and one          *)
(* connection arriving, where a write of a fan-out may fail.               *)
(***************************************************************************)
Fanners == {ConnIds[1], CrowdIds[1]}

InitFanout ==
    /\ mLocal = createEmptyState
    /\ mRemote = createEmptyState
    /\ mPc = "idle"
    /\ mLR = NoResult
    /\ mRL = NoResult
    /\ NoReplicas
    /\ NoTime
    /\ NoPresence
    /\ boards = 1
    /\ boardStates = <<[c \in Crowd(2) |-> ParticipantState(c)]>>
    /\ handler = [k \in Sockets |->
                     IF k \in Crowd(2) THEN [pc |-> "joined", board |-> 1, clientId |-> k]
                     ELSE IF k = ConnIds[1] THEN [pc |-> "new", board |-> 0, clientId |-> ""]
                     ELSE NoHandler]
    /\ webSocket = [k \in Sockets |-> IF k \in Crowd(2) \cup {ConnIds[1]} THEN "Open" ELSE "Closed"]
    /\ out = {}
    /\ hev = NoHubEvent

NextFanout ==
    \E k \in Fanners :
        \/ AcceptConnection(k)
        \/ WaitForHello(k)
        \/ AnnounceJoin(k)
        \/ ReceiveMessages(k)
        \/ ReceiveFails(k)
        \/ SocketEnds(k)
        \/ Teardown(k)

SpecFanout == InitFanout /\ [][NextFanout]_vars

(***************************************************************************)
(* SpecJoined: the replicas "a" and "b" both joined through the relay,     *)
(* their sync windows over, in the forming phase, holding the same stored  *)
(* state.  Their users act up to MaxJoinedOps times; the relay hands on    *)
(* every frame it is sent and every socket delivers every frame written    *)
(* to it.                                                                  *)
(***************************************************************************)
MaxJoinedOps == 2

InitJoined ==
    /\ mLocal = createEmptyState
    /\ mRemote = createEmptyState
    /\ mPc = "idle"
    /\ mLR = NoResult
    /\ mRL = NoResult
    /\ \E st \in StoredStates : state = [r \in Replicas |-> st]
    /\ connState = [r \in Replicas |-> "ready"]
    /\ sock = [r \in Replicas |-> "OPEN"]
    /\ reconnectAttempts = [r \in Replicas |-> 0]
    /\ opCounter = [r \in Replicas |-> 0]
    /\ isSyncing = [r \in Replicas |-> FALSE]
    /\ receivedStates = [r \in Replicas |-> <<>>]
    /\ bufferedOps = [r \in Replicas |-> <<>>]
    /\ seenOpIds = [r \in Replicas |-> {}]
    /\ sent = [r \in Replicas |-> <<>>]
    /\ ev = NoEvent
    /\ budget = [snapshots |-> 0, frames |-> 0, ops |-> MaxJoinedOps, sessions |-> 0]
    /\ participants = Replicas
    /\ toRelay = [r \in Replicas |-> <<>>]
    /\ toClient = [r \in Replicas |-> <<>>]
    /\ NoHub
    /\ NoTime
    /\ NoPresence

JoinedUser(r) ==
    /\ \A x \in Replicas : Joined(x)
    /\ Spend("ops")
    /\ \/ \E payload \in Payloads : submitCard(r, payload)
       \/ handleDeleteCard(r)
       \/ handleVote(r)
       \/ startReview(r)
    /\ Written(r)
    /\ UNCHANGED toClient

NextJoined ==
    \E r \in Replicas :
        \/ JoinedUser(r)
        \/ HandleMessage(r)
        \/ BoardReceive(r)

\* the receive loop of the relay and the message events of the sockets run
FairJoined ==
    \A r \in Replicas : WF_vars(HandleMessage(r)) /\ WF_vars(BoardReceive(r))

SpecJoined == InitJoined /\ [][NextJoined]_vars /\ FairJoined

(***************************************************************************)
(* SpecPresence: the relay with one session joined earlier and two         *)
(* connections arriving, and the participantCount and readyCount each of   *)
(* the three connection managers holds.  Handlers run on the thread pool:  *)
(* the finally block of HandleConnection is two steps here, the removal    *)
(* with the serialization of the participantsUpdate, and the writes of it, *)
(* so that the finally blocks of two sessions interleave between them.     *)
(***************************************************************************)
Observed == {ConnIds[1], ConnIds[2], CrowdIds[1]}

InitPresence ==
    /\ mLocal = createEmptyState
    /\ mRemote = createEmptyState
    /\ mPc = "idle"
    /\ mLR = NoResult
    /\ mRL = NoResult
    /\ NoReplicas
    /\ NoTime
    /\ banner = NoBanner
    /\ counts = [k \in Observed |->
                    [participantCount |-> IF k \in Crowd(1) THEN 1 ELSE 0, readyCount |-> 0]]
    /\ composed = [k \in Sockets |-> NoUpdate]
    /\ detached = <<>>
    /\ boards = 1
    /\ boardStates = <<[c \in Crowd(1) |-> ParticipantState(c)]>>
    /\ handler = [k \in Sockets |->
                     IF k \in Crowd(1) THEN [pc |-> "joined", board |-> 1, clientId |-> k]
                     ELSE IF k \in Observed THEN [pc |-> "new", board |-> 0, clientId |-> ""]
                     ELSE NoHandler]
    /\ webSocket = [k \in Sockets |-> IF k \in Observed THEN "Open" ELSE "Closed"]
    /\ out = {}
    /\ hev = NoHubEvent

\* the finally block up to the Serialize of BroadcastParticipantsUpdate: the
\* session is removed and the counts of the update are read
Leave(k) ==
    LET b == handler[k].board
        P == TryRemove(boardStates[b], handler[k].clientId)
    IN /\ handler[k].pc = "joined"
       /\ webSocket[k] # "Open"
       /\ boardStates' = [boardStates EXCEPT ![b] = P]
       /\ composed' = [composed EXCEPT ![k] =
                          [Frame("participantsUpdate") EXCEPT
                              !.participantCount = Cardinality(DOMAIN P),
                              !.readyCount = ReadyCount(P)]]
       /\ out' = {}
       /\ At(k, "leaving", b, handler[k].clientId)
       /\ hev' = [conn |-> k, kind |-> "removed", frame |-> Frame(""), close |-> 0]
       /\ UNCHANGED <<mergeVars, replicaVars, participants, toRelay, toClient>>
       /\ UNCHANGED <<timeVars, banner, counts, detached, boards, webSocket>>

\* the rest of it: the update is written to the open sockets of the
\* sessions registered now, and the entry of an empty board is removed
AnnounceLeave(k) ==
    LET b == handler[k].board
        P == boardStates[b]
    IN /\ handler[k].pc = "leaving"
       /\ out' = UNION {SendRaw(P[c].socket, composed[k]) : c \in DOMAIN P \ {handler[k].clientId}}
       /\ composed' = [composed EXCEPT ![k] = NoUpdate]
       /\ boards' = IF DOMAIN P = {} THEN 0 ELSE boards
       /\ At(k, "done", b, handler[k].clientId)
       /\ hev' = [conn |-> k, kind |-> "closed", frame |-> Frame(""), close |-> 0]
       /\ counts' = Received(counts, out')
       /\ UNCHANGED <<mergeVars, replicaVars, participants, toRelay, toClient>>
       /\ UNCHANGED <<timeVars, banner, detached, boardStates, webSocket>>

NextPresence ==
    \E k \in Observed :
        \/ AcceptConnection(k)
        \/ WaitForHello(k)
        \/ AnnounceJoin(k)
        \/ ReceiveMessages(k)
        \/ SocketEnds(k)
        \/ Leave(k)
        \/ AnnounceLeave(k)

SpecPresence == InitPresence /\ [][NextPresence]_vars

(***************************************************************************)
(* SpecSockets: one connection manager, its callers and its sockets.       *)
(* connect() and disconnect() are exported and may be called at any time.  *)
(* A socket the manager no longer refers to keeps its handlers until its   *)
(* close event: detached holds the readyState of each such socket, apart   *)
(* from the one disconnect() let go of last, which sock shows as DETACHED. *)
(* No clock: a pending reconnect timer fires at some point.                *)
(***************************************************************************)
MaxDetached == 2

InitSockets ==
    /\ mLocal = createEmptyState
    /\ mRemote = createEmptyState
    /\ mPc = "idle"
    /\ mLR = NoResult
    /\ mRL = NoResult
    /\ NoReplicas
    /\ NoHub
    /\ NoTime
    /\ NoPresence

\* the readyState of the socket that cleanup() or a new connect() leaves
\* without a reference
LetGo(socket) == IF socket = "DETACHED" THEN "CLOSING" ELSE socket

Without(s, i) == SubSeq(s, 1, i - 1) \o SubSeq(s, i + 1, Len(s))

\* connect() called by the page
SocketsConnect ==
    /\ connect(Self)
    /\ IF sock[Self] = "NONE" THEN UNCHANGED detached
       ELSE /\ Len(detached) < MaxDetached
            /\ detached' = Append(detached, LetGo(sock[Self]))
    /\ UNCHANGED <<mergeVars, banner, composed, counts, timeVars, relayVars, budget>>

\* disconnect() called by the page
SocketsDisconnect ==
    /\ disconnect(Self)
    /\ Timers(cleanup(timeouts[Self]))
    /\ UNCHANGED <<mergeVars, banner, pendingVars, counts, relayVars, budget>>
    /\ UNCHANGED <<reported, silence, inactivity>>

\* the socket the manager holds opens
SocketsOpen ==
    /\ onopen(Self)
    /\ UNCHANGED <<mergeVars, banner, pendingVars, counts, timeVars, relayVars, budget>>

\* the relay answers the hello
SocketsWelcome ==
    /\ connState[Self] = "handshaking"
    /\ sock[Self] = "OPEN"
    /\ onWelcome(Self, WelcomeFrame)
    /\ Timers(startPing(timeouts[Self]))
    /\ UNCHANGED <<mergeVars, banner, pendingVars, counts, relayVars, budget>>
    /\ UNCHANGED <<reported, silence, inactivity>>

\* what socket.onclose does to the timers and to onError
Closed(code) ==
    LET t == cleanup(timeouts[Self])
        n == reconnectAttempts[Self]
        terminal == code = 1008 \/ code = 4000
        reconnects == ~terminal /\ connState[Self] # "closed"
    IN /\ Timers(IF reconnects THEN scheduleReconnect(t, n) ELSE t)
       /\ reported' = [reported EXCEPT ![Self] =
                          IF terminal THEN "Connection rejected"
                          ELSE IF reconnects /\ n >= RECONNECT_MAX_ATTEMPTS
                          THEN "Connection lost - max reconnect attempts reached"
                          ELSE @]
       /\ UNCHANGED <<mergeVars, banner, composed, counts, relayVars, budget>>
       /\ UNCHANGED <<silence, inactivity>>

\* the close event of the socket the manager holds or let go of last
SocketsClose ==
    \E code \in CloseCodes :
        /\ onclose(Self, code)
        /\ Closed(code)
        /\ UNCHANGED detached

\* the open event of an earlier socket: its onopen sets handshaking and
\* calls send on whatever socket the manager holds now
EarlierOpen ==
    \E i \in DOMAIN detached :
        /\ detached[i] = "CONNECTING"
        /\ detached' = [detached EXCEPT ![i] = "OPEN"]
        /\ connState' = [connState EXCEPT ![Self] = "handshaking"]
        /\ Sent(Self, send(Self, HelloFrame(Self)))
        /\ Note(Self, "earlier-open", Frame(""), "", <<>>)
        /\ UNCHANGED <<state, sock, reconnectAttempts, opCounter, syncVars, seenOpIds>>
        /\ UNCHANGED <<mergeVars, banner, composed, counts, timeVars, relayVars, budget>>

\* the close event of an earlier socket: the same onclose, whose cleanup()
\* sets the manager's socket to null whichever socket that is
EarlierClose ==
    \E i \in DOMAIN detached, code \in CloseCodes :
        /\ handleClose(Self, code)
        /\ Closed(code)
        /\ detached' = IF sock[Self] = "NONE" THEN Without(detached, i)
                       ELSE Append(Without(detached, i), LetGo(sock[Self]))

\* the callback of scheduleReconnect: connect(), which returns at once
\* while the state is connecting, handshaking or ready
SocketsReconnect ==
    /\ timeouts[Self].reconnectTimeout # NoTimer
    /\ Timers([timeouts[Self] EXCEPT !.reconnectTimeout = NoTimer])
    /\ IF connState[Self] \in {"connecting", "handshaking", "ready"}
       THEN /\ Sent(Self, <<>>)
            /\ Note(Self, "timer", Frame(""), "", <<>>)
            /\ UNCHANGED <<state, connVars, opCounter, syncVars, seenOpIds, detached>>
       ELSE /\ connect(Self)
            /\ IF sock[Self] = "NONE" THEN UNCHANGED detached
               ELSE /\ Len(detached) < MaxDetached
                    /\ detached' = Append(detached, LetGo(sock[Self]))
    /\ UNCHANGED <<mergeVars, banner, composed, counts, relayVars, budget>>
    /\ UNCHANGED <<reported, silence, inactivity>>

NextSockets ==
    \/ SocketsConnect
    \/ SocketsDisconnect
    \/ SocketsOpen
    \/ SocketsWelcome
    \/ SocketsClose
    \/ EarlierOpen
    \/ EarlierClose
    \/ SocketsReconnect

SpecSockets == InitSockets /\ [][NextSockets]_vars

(***************************************************************************)
(* C1: mergeState(A,B).state and mergeState(B,A).state have the same       *)
(* phase, the same set of cards and the same set of votes, every field     *)
(* equal; only the order of the lists may differ.                          *)
(***************************************************************************)
C1_Commutative ==
    mPc = "done" =>
        /\ mLR.state.phase = mRL.state.phase
        /\ Entries(mLR.state.cards) = Entries(mRL.state.cards)
        /\ Entries(mLR.state.votes) = Entries(mRL.state.votes)


\* a pair of different versions of one card whose text alone tells them apart
C1_Case ==
    /\ mPc = "done"
    /\ \E id \in Ids(mLocal.cards) \cap Ids(mRemote.cards) :
          /\ Entry(mLocal.cards, id) # Entry(mRemote.cards, id)
          /\ Entry(mLocal.cards, id).rev = Entry(mRemote.cards, id).rev
          /\ Entry(mLocal.cards, id).authorId = Entry(mRemote.cards, id).authorId
          /\ Entry(mLocal.cards, id).isDeleted = Entry(mRemote.cards, id).isDeleted

(***************************************************************************)
(* C2: mergeState(A,A) reports changed=false and returns a state equal to  *)
(* A.                                                                      *)
(***************************************************************************)
C2_Idempotent ==
    (mPc = "done" /\ mRemote = mLocal) =>
        /\ mLR.changed = FALSE
        /\ mLR.state = mLocal

(***************************************************************************)
(* C2 as amended: mergeState(A,A) reports changed=false and returns A with *)
(* the same phase, the same cards and votes in the same order, and A's     *)
(* version, a missing version being filled in as 1.                        *)
(***************************************************************************)
C2_IdempotentUpToVersion ==
    (mPc = "done" /\ mRemote = mLocal) =>
        /\ mLR.changed = FALSE
        /\ mLR.state = [mLocal EXCEPT !.version = IF @ = 0 THEN 1 ELSE @]

C2_Witness ==
    /\ mPc = "done"
    /\ mRemote = mLocal
    /\ Len(mLocal.cards) = 2
    /\ Len(mLocal.votes) = 1
    /\ mLocal.phase = "reviewing"

(***************************************************************************)
(* C6: for mergeCard and mergeVote, when the two versions have equal rev   *)
(* and equal owner id and exactly one of them has isDeleted=true, the      *)
(* result is the deleted version whichever argument is the local one; the  *)
(* merged states therefore hold the deleted version in both orders.        *)
(***************************************************************************)
TombstoneTie(l, r, ownerL, ownerR) ==
    l.rev = r.rev /\ ownerL = ownerR /\ l.isDeleted # r.isDeleted

Deleted(l, r) == IF l.isDeleted THEN l ELSE r

C6_TombstoneWins ==
    mPc = "done" =>
        /\ \A id \in Ids(mLocal.cards) \cap Ids(mRemote.cards) :
              LET l == Entry(mLocal.cards, id)
                  r == Entry(mRemote.cards, id)
              IN TombstoneTie(l, r, l.authorId, r.authorId) =>
                    /\ mergeCard(l, r) = Deleted(l, r)
                    /\ mergeCard(r, l) = Deleted(l, r)
                    /\ Entry(mLR.state.cards, id) = Deleted(l, r)
                    /\ Entry(mRL.state.cards, id) = Deleted(l, r)
        /\ \A id \in Ids(mLocal.votes) \cap Ids(mRemote.votes) :
              LET l == Entry(mLocal.votes, id)
                  r == Entry(mRemote.votes, id)
              IN TombstoneTie(l, r, l.voterId, r.voterId) =>
                    /\ mergeVote(l, r) = Deleted(l, r)
                    /\ mergeVote(r, l) = Deleted(l, r)
                    /\ Entry(mLR.state.votes, id) = Deleted(l, r)
                    /\ Entry(mRL.state.votes, id) = Deleted(l, r)

\* the local card is the tombstone, the remote one a live version of the same
\* rev and author with another text
C6_Witness ==
    /\ mPc = "done"
    /\ \E id \in Ids(mLocal.cards) \cap Ids(mRemote.cards) :
          LET l == Entry(mLocal.cards, id)
              r == Entry(mRemote.cards, id)
          IN /\ TombstoneTie(l, r, l.authorId, r.authorId)
             /\ l.isDeleted
             /\ l.text # r.text
             /\ l.rev = MaxRev

(***************************************************************************)
(* C8: mergeCard and mergeVote return the version with the higher rev and, *)
(* when revs are equal, the version whose owner id is lexicographically    *)
(* higher; two replicas holding the same two concurrent versions select    *)
(* the same winner whichever version each holds locally.                   *)
(***************************************************************************)
Newer(l, r, ownerL, ownerR) ==
    IF l.rev # r.rev THEN (IF l.rev > r.rev THEN l ELSE r)
    ELSE IF StrGreater(ownerL, ownerR) THEN l ELSE r

C8_HigherRevThenOwner ==
    mPc = "done" =>
        /\ \A id \in Ids(mLocal.cards) \cap Ids(mRemote.cards) :
              LET l == Entry(mLocal.cards, id)
                  r == Entry(mRemote.cards, id)
              IN (l.rev # r.rev \/ l.authorId # r.authorId) =>
                    /\ mergeCard(l, r) = Newer(l, r, l.authorId, r.authorId)
                    /\ mergeCard(r, l) = Newer(l, r, l.authorId, r.authorId)
                    /\ Entry(mLR.state.cards, id) = Entry(mRL.state.cards, id)
        /\ \A id \in Ids(mLocal.votes) \cap Ids(mRemote.votes) :
              LET l == Entry(mLocal.votes, id)
                  r == Entry(mRemote.votes, id)
              IN (l.rev # r.rev \/ l.voterId # r.voterId) =>
                    /\ mergeVote(l, r) = Newer(l, r, l.voterId, r.voterId)
                    /\ mergeVote(r, l) = Newer(l, r, l.voterId, r.voterId)
                    /\ Entry(mLR.state.votes, id) = Entry(mRL.state.votes, id)

\* the scenario of the specification: card c1 at rev 2 by "a" locally and by
\* "b" remotely, and both merge orders hold b's version
C8_Witness ==
    /\ mPc = "done"
    /\ Len(mLocal.cards) = 1 /\ Len(mRemote.cards) = 1
    /\ mLocal.cards[1].id = "c1" /\ mRemote.cards[1].id = "c1"
    /\ mLocal.cards[1].rev = 2 /\ mRemote.cards[1].rev = 2
    /\ mLocal.cards[1].authorId = "a" /\ mRemote.cards[1].authorId = "b"
    /\ mLocal.cards[1].text # mRemote.cards[1].text
    /\ mLR.state.cards = <<mRemote.cards[1]>>
    /\ mRL.state.cards = <<mRemote.cards[1]>>


(***************************************************************************)
(* Helpers for the properties of the replica.                              *)
(***************************************************************************)
\* the same phase, cards and votes, whatever the order of the lists
SameBoard(s1, s2) ==
    /\ s1.phase = s2.phase
    /\ Entries(s1.cards) = Entries(s2.cards)
    /\ Entries(s1.votes) = Entries(s2.votes)

\* the entity an op is about, <<>> when the state does not hold it
EntityOf(st, op) ==
    IF op.type = "cardOp"
    THEN (IF IndexOf(st.cards, op.cardId) = 0 THEN <<>> ELSE Entry(st.cards, op.cardId))
    ELSE (IF IndexOf(st.votes, VoteId(op.cardId, op.voterId)) = 0 THEN <<>>
          ELSE Entry(st.votes, VoteId(op.cardId, op.voterId)))

\* the op carries a rev lower than the one stored for its entity
Stale(st, op) ==
    /\ op.type \in {"cardOp", "vote"}
    /\ EntityOf(st, op) # <<>>
    /\ op.rev < EntityOf(st, op).rev

\* the local state with the first n of the snapshots folded in
RECURSIVE FoldTo(_, _, _)
FoldTo(local, snapshots, n) ==
    IF n = 0 THEN local ELSE mergeState(FoldTo(local, snapshots, n - 1), snapshots[n]).state

\* the state after the first n of the ops were replayed one by one
RECURSIVE ReplayTo(_, _, _)
ReplayTo(st, ops, n) ==
    IF n = 0 THEN st
    ELSE LET before == ReplayTo(st, ops, n - 1)
         IN IF ops[n].type = "cardOp" THEN applyCardOp(before, ops[n])
            ELSE IF ops[n].type = "vote" THEN applyVote(before, ops[n])
            ELSE before

(***************************************************************************)
(* C4: for any replica and any card or vote whose stored rev is r, an      *)
(* incoming cardOp or vote for that id with rev < r leaves the stored      *)
(* entity unchanged, both when the op is handled on arrival and when it    *)
(* was buffered during a sync window and is replayed at its end.           *)
(***************************************************************************)
C4_StaleOpIgnored ==
    [][/\ (ev'.kind = "message" /\ Stale(state[ev'.who], ev'.frame)) =>
             EntityOf(state'[ev'.who], ev'.frame) = EntityOf(state[ev'.who], ev'.frame)
       /\ ev'.kind = "completeSync" =>
             LET r == ev'.who
                 ops == bufferedOps[r]
                 merged == FoldTo(state[r], receivedStates[r], Len(receivedStates[r]))
             IN /\ state'[r] = ReplayTo(merged, ops, Len(ops))
                /\ \A i \in 1..Len(ops) :
                      Stale(ReplayTo(merged, ops, i - 1), ops[i]) =>
                         EntityOf(ReplayTo(merged, ops, i), ops[i])
                            = EntityOf(ReplayTo(merged, ops, i - 1), ops[i])]_vars

\* a window has just completed in which the create of the peer's card was
\* buffered while a snapshot brought the card at a higher rev
C4_Witness ==
    /\ ev.kind = "completeSync"
    /\ Len(ev.replayed) = 1
    /\ ev.replayed[1].type = "cardOp"
    /\ ev.replayed[1].action = "create"
    /\ Stale(state[ev.who], ev.replayed[1])
    /\ Entry(state[ev.who].cards, ev.replayed[1].cardId).isDeleted

(***************************************************************************)
(* C5: in every replica, once the local phase is reviewing it stays        *)
(* reviewing through every step: merges of the join window, late           *)
(* syncState merges, incoming ops, phaseChanged messages and reconnects.   *)
(***************************************************************************)
C5_PhaseMonotonic ==
    [][\A r \in Replicas :
          state[r].phase = "reviewing" => state'[r].phase = "reviewing"]_vars

\* a replica in review has just merged a late snapshot that is still forming
C5_Witness ==
    /\ ev.kind = "message"
    /\ ev.frame.type = "syncState"
    /\ ev.frame.state.phase = "forming"
    /\ ev.outcome \in {"merged", "unchanged"}
    /\ state[ev.who].phase = "reviewing"
    /\ budget.sessions = 0


(***************************************************************************)
(* C7: once a replica's state holds a card or vote with isDeleted = TRUE,  *)
(* every later state of the replica still holds that id and still with     *)
(* isDeleted = TRUE: a tombstone is never removed and never becomes live   *)
(* again.                                                                  *)
(***************************************************************************)
Tombstones(list) == {e \in Entries(list) : e.isDeleted}

C7_TombstoneForever ==
    [][\A r \in Replicas :
          /\ \A t \in Tombstones(state[r].cards) :
                /\ t.id \in Ids(state'[r].cards)
                /\ Entry(state'[r].cards, t.id).isDeleted
          /\ \A t \in Tombstones(state[r].votes) :
                /\ t.id \in Ids(state'[r].votes)
                /\ Entry(state'[r].votes, t.id).isDeleted]_vars

(***************************************************************************)
(* C7 as amended: once a replica's state holds a card or vote with         *)
(* isDeleted = TRUE, every later state still holds that id, and the        *)
(* version it holds is the tombstone or a version that beat it in the      *)
(* merge: deleted as well, or of higher rev, or of equal rev and higher    *)
(* owner id.  A tombstone is never removed, and it becomes live again only *)
(* through a newer version.                                                *)
(***************************************************************************)
Beats(new, old, ownerNew, ownerOld) ==
    \/ new.rev > old.rev
    \/ new.rev = old.rev /\ StrGreater(ownerNew, ownerOld)

C7_TombstoneKeptUntilNewer ==
    [][\A r \in Replicas :
          /\ \A t \in Tombstones(state[r].cards) :
                /\ t.id \in Ids(state'[r].cards)
                /\ LET n == Entry(state'[r].cards, t.id)
                   IN n.isDeleted \/ Beats(n, t, n.authorId, t.authorId)
          /\ \A t \in Tombstones(state[r].votes) :
                /\ t.id \in Ids(state'[r].votes)
                /\ LET n == Entry(state'[r].votes, t.id)
                   IN n.isDeleted \/ Beats(n, t, n.voterId, t.voterId)]_vars

\* a replica holding the tombstone of the peer's card has just merged a late
\* snapshot in which that card is live, and still holds the tombstone
C7_Witness ==
    /\ ev.kind = "message"
    /\ ev.frame.type = "syncState"
    /\ ev.outcome \in {"merged", "unchanged"}
    /\ "c2" \in Ids(ev.frame.state.cards)
    /\ ~Entry(ev.frame.state.cards, "c2").isDeleted
    /\ "c2" \in Ids(state[ev.who].cards)
    /\ Entry(state[ev.who].cards, "c2").isDeleted

(***************************************************************************)
(* C9: when a joining client receives two syncState snapshots S1 and S2    *)
(* and a vote op V during its sync window, the state after the window      *)
(* completes is the local state merged with S1 and S2 with V applied       *)
(* afterwards, and it is the same in whichever order S1 and S2 arrived     *)
(* (V is replayed after the merge wherever it arrived in the window).      *)
(***************************************************************************)
C9_ArrivalOrder ==
    [][(/\ ev'.kind = "completeSync"
        /\ Len(receivedStates[ev'.who]) = 2
        /\ Len(bufferedOps[ev'.who]) = 1
        /\ bufferedOps[ev'.who][1].type = "vote") =>
          LET r == ev'.who
              S1 == receivedStates[r][1]
              S2 == receivedStates[r][2]
              V == bufferedOps[r][1]
              viaS1S2 == applyVote(mergeState(mergeState(state[r], S1).state, S2).state, V)
              viaS2S1 == applyVote(mergeState(mergeState(state[r], S2).state, S1).state, V)
          IN /\ state'[r] = viaS1S2
             /\ SameBoard(viaS1S2, viaS2S1)]_vars

(***************************************************************************)
(* C10: at the end of each sync window the client sends its merged state   *)
(* as an untargeted syncState exactly once if at least one fold of a       *)
(* received snapshot reported a change, and sends no syncState at all if   *)
(* no fold reported a change.                                              *)
(***************************************************************************)
AnyFoldChanged(local, snapshots) ==
    \E i \in 1..Len(snapshots) :
        mergeState(FoldTo(local, snapshots, i - 1), snapshots[i]).changed

SyncStatesIn(frames) == {i \in 1..Len(frames) : frames[i].type = "syncState"}

Settled ==
    /\ \A r \in Replicas : Joined(r) /\ r \in participants
    /\ \A r \in Replicas : toRelay[r] = <<>> /\ toClient[r] = <<>>

C3_Converged ==
    Settled => \A r1, r2 \in Replicas : SameBoard(state[r1], state[r2])


(***************************************************************************)
(* C11: within one board session isDuplicate(opId) is false the first time *)
(* an opId is presented and true afterwards, and true for every opId       *)
(* passed to markSeen; so a replica never applies (or buffers for replay)  *)
(* an incoming cardOp, vote or phaseChanged whose opId it has already seen *)
(* or has originated itself.                                               *)
(***************************************************************************)
OpTypes == {"cardOp", "vote", "phaseChanged"}

\* the opIds generateOpId has handed out to the replica's own ops
Originated(r) == {<<r, n>> : n \in 1..opCounter[r]}

Taken(outcome) == outcome \in {"applied", "buffered"}

\* the step handles an incoming op whose opId is in the set known
IncomingKnown(known) ==
    /\ ev'.kind = "message"
    /\ ev'.frame.type \in OpTypes
    /\ ev'.frame.opId \in known

C11_NoReapply ==
    [][IncomingKnown(seenOpIds[Self] \cup Originated(Self)) => ~Taken(ev'.outcome)]_vars

\* the part that holds: opIds the dedup set has recorded (seen on arrival, or
\* passed to markSeen) are never taken again
C11_SeenNeverTaken ==
    [][IncomingKnown(seenOpIds[Self]) => ~Taken(ev'.outcome)]_vars

\* an op arrives a second time and is dropped as a duplicate
C11_Witness ==
    /\ ev.kind = "message"
    /\ ev.frame.type \in OpTypes
    /\ ev.outcome = "duplicate"
    /\ ev.frame.senderId = Peer


(***************************************************************************)
(* Claims about the relay.  hev and out describe the last step of a        *)
(* handler: hev.conn is its connection, BoardOf its BoardState object.     *)
(***************************************************************************)
Registered(k) == handler[k].pc \in {"welcomed", "joined"}

InProgress(k) == handler[k].pc \in {"hello", "welcomed", "joined"}

BoardOf(k) == boardStates[handler[k].board]

OpenOthers(P, clientId) == {c \in DOMAIN P \ {clientId} : webSocket[P[c].socket] = "Open"}

To(P, clientIds, frame) == {[to |-> P[c].socket, frame |-> frame] : c \in clientIds}

Update(P, syncForClientId) ==
    [Frame("participantsUpdate") EXCEPT !.participantCount = Cardinality(DOMAIN P),
                                        !.readyCount = ReadyCount(P),
                                        !.syncForClientId = syncForClientId]

(***************************************************************************)
(* C12: under any interleaving of connection attempts, handshakes and      *)
(* disconnects, the number of sessions registered on a board never exceeds *)
(* the capacity limit of 20.                                               *)
(***************************************************************************)
C12_CapacityRespected ==
    \A b \in 1..Len(boardStates) :
        Cardinality(DOMAIN boardStates[b]) <= MaxParticipantsPerBoard

(***************************************************************************)
(* C13: a connection attempt to a board that already holds 20 registered   *)
(* sessions gets an error frame and a policy-violation close before the    *)
(* relay reads a hello from it, and the registered sessions stay           *)
(* registered.                                                             *)
(***************************************************************************)
C13_FullBoardRejects ==
    [][\A k \in Conns :
          (/\ handler[k].pc = "new"
           /\ handler'[k].pc # "new"
           /\ boards # 0
           /\ Cardinality(DOMAIN boardStates[boards]) >= MaxParticipantsPerBoard)
          => /\ hev'.conn = k
             /\ hev'.kind = "full"
             /\ hev'.close = PolicyViolation
             /\ \E e \in out' : out' = {e} /\ e.to = k /\ e.frame.type = "error"
             /\ webSocket'[k] = "Closed"
             /\ handler'[k].pc = "done"
             /\ handler'[k].clientId = ""
             /\ boardStates' = boardStates
             /\ boards' = boards]_vars

\* a 21st connection has just been turned away from a board of 20
C13_Witness ==
    /\ hev.kind = "full"
    /\ hev.conn \in Conns
    /\ handler[hev.conn].pc = "done"
    /\ Cardinality(DOMAIN BoardOf(hev.conn)) = MaxParticipantsPerBoard
    /\ \E e \in out : e.to = hev.conn /\ e.frame.type = "error"

(***************************************************************************)
(* C14: at every moment the board holds at most one session per clientId:  *)
(* a hello with a clientId that has a live session on the board gets an    *)
(* error frame and a policy-violation close, and the first session stays.  *)
(***************************************************************************)
C14_OneSessionPerClientId ==
    \A k1, k2 \in Sockets :
        (Registered(k1) /\ Registered(k2) /\ handler[k1].clientId = handler[k2].clientId)
        => k1 = k2

\* the part that holds: within one BoardState object a hello whose clientId
\* is registered is rejected and the registered session stays
C14_DuplicateInObjectRejected ==
    [][\A k \in Conns :
          (/\ handler[k].pc = "hello"
           /\ handler'[k].pc # "hello"
           /\ hev'.kind \in {"welcome", "duplicate"}
           /\ hev'.frame.clientId \in DOMAIN BoardOf(k))
          => /\ hev'.kind = "duplicate"
             /\ hev'.close = PolicyViolation
             /\ \E e \in out' : out' = {e} /\ e.to = k /\ e.frame.type = "error"
             /\ boardStates' = boardStates]_vars

(***************************************************************************)
(* C15: when a hello succeeds the relay sends the joiner a welcome whose   *)
(* counts include the joiner, and sends every other registered session,    *)
(* and not the joiner, a participantsUpdate whose syncForClientId is the   *)
(* joiner's clientId.                                                      *)
(***************************************************************************)
C15_JoinAnnounced ==
    LET k == hev.conn
        P == BoardOf(k)
        id == handler[k].clientId
    IN /\ hev.kind = "welcome" =>
            out = {[to |-> k, frame |-> [Frame("welcome") EXCEPT
                        !.participantCount = Cardinality(DOMAIN P),
                        !.readyCount = ReadyCount(P)]]}
       /\ hev.kind = "announce" => out = To(P, OpenOthers(P, id), Update(P, id))

\* the part that holds: the welcome and the recipients of the update
C15_WelcomeAndRecipients ==
    LET k == hev.conn
        P == BoardOf(k)
        id == handler[k].clientId
    IN /\ hev.kind = "welcome" =>
            /\ id \in DOMAIN P
            /\ out = {[to |-> k, frame |-> [Frame("welcome") EXCEPT
                        !.participantCount = Cardinality(DOMAIN P),
                        !.readyCount = ReadyCount(P)]]}
       /\ hev.kind = "announce" => {e.to : e \in out} = {P[c].socket : c \in OpenOthers(P, id)}

(***************************************************************************)
(* C16: a cardOp, vote or phaseChanged frame of a joined session goes to   *)
(* every other joined session of its board and not to its sender, its      *)
(* content unchanged but for an added senderId, the sender's clientId.     *)
(***************************************************************************)
C16_OpsFannedOut ==
    LET k == hev.conn
        P == BoardOf(k)
        id == handler[k].clientId
    IN (hev.kind = "message" /\ hev.frame.type \in OpTypes)
       => out = To(P, OpenOthers(P, id), [hev.frame EXCEPT !.senderId = id])

\* the part that holds: the recipients, and the frame as it was received
C16_OpsFannedOutUntagged ==
    LET k == hev.conn
        P == BoardOf(k)
        id == handler[k].clientId
    IN (hev.kind = "message" /\ hev.frame.type \in OpTypes)
       => out = To(P, OpenOthers(P, id), hev.frame)

(***************************************************************************)
(* C17: a syncState frame with a targetClientId goes only to the session   *)
(* registered under that id; a syncState frame without one goes to every   *)
(* joined session of the board except its sender.                          *)
(***************************************************************************)
C17_SyncStateRouted ==
    LET k == hev.conn
        P == BoardOf(k)
        id == handler[k].clientId
        target == hev.frame.targetClientId
    IN (hev.kind = "message" /\ hev.frame.type = "syncState")
       => out = IF target # ""
                THEN To(P, {c \in DOMAIN P : c = target /\ webSocket[P[c].socket] = "Open"},
                        hev.frame)
                ELSE To(P, OpenOthers(P, id), hev.frame)

\* the part that holds: the targeted route
C17_TargetedOnly ==
    LET k == hev.conn
        P == BoardOf(k)
        target == hev.frame.targetClientId
    IN (hev.kind = "message" /\ hev.frame.type = "syncState" /\ target # "")
       => out = To(P, {c \in DOMAIN P : c = target /\ webSocket[P[c].socket] = "Open"},
                   hev.frame)

(***************************************************************************)
(* C18: after a joined session sends setReady{isReady: b} the relay has b  *)
(* as that session's readiness and broadcasts a participantsUpdate without *)
(* syncForClientId whose readyCount is the number of sessions marked ready *)
(* and whose participantCount is the number of registered sessions.        *)
(***************************************************************************)
C18_ReadyRecorded ==
    LET k == hev.conn
        P == BoardOf(k)
        id == handler[k].clientId
    IN (hev.kind = "message" /\ hev.frame.type = "setReady" /\ hev.frame.hasIsReady)
       => /\ P[id].isReady = hev.frame.isReady
          /\ out = To(P, OpenOthers(P, id), Update(P, ""))

\* what the relay does do: a setReady frame with the property ready is
\* recorded and announced to every session but its sender
C18_ReadyPropertyRecorded ==
    LET k == hev.conn
        P == BoardOf(k)
        id == handler[k].clientId
    IN (hev.kind = "message" /\ hev.frame.type = "setReady")
       => IF hev.frame.hasReady
          THEN /\ P[id].isReady = hev.frame.ready
               /\ out = To(P, OpenOthers(P, id), Update(P, ""))
          ELSE out = {}

(***************************************************************************)
(* C19: when the connection of a registered session ends (client close,    *)
(* error, inactivity closure) the relay removes the session from the board *)
(* and sends the remaining sessions a participantsUpdate without           *)
(* syncForClientId whose participantCount no longer includes it.           *)
(***************************************************************************)
C19_Removed ==
    LET k == hev.conn
        P == BoardOf(k)
        id == handler[k].clientId
    IN /\ hev.kind = "closed" =>
            /\ id \notin DOMAIN P
            /\ out = To(P, OpenOthers(P, id), Update(P, ""))
       /\ \A c \in Movers :
            (handler[c].pc = "done" /\ handler[c].board # 0)
            => \A x \in DOMAIN BoardOf(c) : BoardOf(c)[x].socket # c

C19_EndedSessionLeaves ==
    \A k \in Movers : (Registered(k) /\ webSocket[k] = "Closed") ~> (handler[k].pc = "done")

C20_NoEntryForEmptyBoard ==
    (\A k \in Sockets : ~Registered(k) /\ ~InProgress(k)) => boards = 0

(***************************************************************************)
(* C21: a session is registered only after a well-formed hello{clientId}   *)
(* arrived as the first frame of its connection; when the hello timeout    *)
(* passes, or the first frame is malformed or is not a hello, the relay    *)
(* closes the connection with the protocol-error status and never          *)
(* registers it.                                                           *)
(***************************************************************************)
C21_HelloOrProtocolError ==
    [][\A k \in Movers :
          /\ (Registered(k)' /\ ~Registered(k))
             => /\ handler[k].pc = "hello"
                /\ hev'.conn = k
                /\ \E clientId \in HelloIds : hev'.frame = HelloFrame(clientId)
          /\ (hev'.conn = k /\ hev'.kind = "nohello")
             => /\ hev'.close = ProtocolError
                /\ webSocket'[k] = "Closed"
                /\ ~Registered(k)']_vars

\* the part of C21 the relay keeps: registration needs the hello, a timeout,
\* a binary frame, text that is no JSON and an object that is no hello with
\* a clientId are closed with the protocol-error status, and no connection
\* without a hello is ever registered
C21_FallThroughClosed ==
    [][\A k \in Movers :
          /\ (Registered(k)' /\ ~Registered(k))
             => /\ handler[k].pc = "hello"
                /\ hev'.conn = k
                /\ \E clientId \in HelloIds : hev'.frame = HelloFrame(clientId)
          /\ (hev'.conn = k /\ hev'.kind = "nohello")
             => /\ ~Registered(k)'
                /\ \/ hev'.frame.json = "invalid"
                   \/ /\ hev'.frame.json = "object"
                      /\ hev'.frame.type # JsonNumber
                      /\ hev'.frame.type # "hello" \/ hev'.frame.clientId = ""
                   => /\ hev'.close = ProtocolError
                      /\ webSocket'[k] = "Closed"]_vars

(***************************************************************************)
(* C23: when the socket of the client is closed with the protocol-error or *)
(* the policy-violation status, the client moves to the terminal state     *)
(* closed and schedules no reconnect for that close.                       *)
(***************************************************************************)
C23_ErrorCloseTerminal ==
    [][(ev'.kind = "close" /\ ev'.code \in {ProtocolError, PolicyViolation})
       => /\ connState'[Self] = "closed"
          /\ timeouts'[Self].reconnectTimeout = NoTimer]_vars

\* the part of C23 the client keeps: a close with the policy-violation
\* status (or with the application code 4000) ends in closed, reports the
\* rejection and leaves no reconnect timer, and closed is never left
C23_PolicyCloseTerminal ==
    [][/\ (ev'.kind = "close" /\ ev'.code \in {PolicyViolation, 4000})
          => /\ connState'[Self] = "closed"
             /\ reported'[Self] = "Connection rejected"
             /\ timeouts'[Self].reconnectTimeout = NoTimer
       /\ connState[Self] = "closed" => connState'[Self] = "closed"]_vars

(***************************************************************************)
(* C24: the reconnect attempt that follows n attempts made since the last  *)
(* welcome is scheduled min(1 s * 2^n, 30 s) after the close; a welcome    *)
(* sets n back to 0; after 10 attempts without a welcome the client enters *)
(* closed, reports an error and schedules no further attempt.              *)
(***************************************************************************)
C24_Backoff ==
    [][LET n == reconnectAttempts[Self]
           lost == /\ ev'.kind = "close"
                   /\ ev'.code \notin {PolicyViolation, 4000}
                   /\ connState[Self] # "closed"
       IN /\ (lost /\ n < 10)
             => /\ connState'[Self] = "disconnected"
                /\ timeouts'[Self].reconnectTimeout = Min(2^n, 30)
                /\ reconnectAttempts'[Self] = n + 1
          /\ (lost /\ n >= 10)
             => /\ connState'[Self] = "closed"
                /\ reported'[Self] = "Connection lost - max reconnect attempts reached"
                /\ timeouts'[Self].reconnectTimeout = NoTimer
          /\ ev'.kind = "connect"
             => /\ connState[Self] = "disconnected"
                /\ timeouts[Self].reconnectTimeout = 0
          /\ (ev'.kind = "message" /\ ev'.frame.type = "welcome")
             => reconnectAttempts'[Self] = 0
          /\ n <= 10]_vars

\* ten attempts were made without a welcome and the client gave up
C24_Witness ==
    /\ ev.kind = "close"
    /\ connState[Self] = "closed"
    /\ reconnectAttempts[Self] = 10
    /\ reported[Self] = "Connection lost - max reconnect attempts reached"
    /\ timeouts[Self].reconnectTimeout = NoTimer

(***************************************************************************)
(* C25: while the client is ready, once a ping has gone unanswered the     *)
(* client closes its socket within a bounded time: the socket is not open  *)
(* any more when the ping interval plus the pong timeout have passed since *)
(* the first ping that had no pong.                                        *)
(***************************************************************************)
C25_MissedPongCloses ==
    (connState[Self] = "ready" /\ sock[Self] = "OPEN")
    => silence[Self] <= Seconds(PING_INTERVAL_MS + PONG_TIMEOUT_MS)

\* the same with the whole stretch of time the clock counts
C25_ClosedWithinHorizon ==
    (connState[Self] = "ready" /\ sock[Self] = "OPEN") => silence[Self] < MaxSilence

(***************************************************************************)
(* C26: after disconnect() the connection state is closed, and no timer    *)
(* that was scheduled before the call (reconnect backoff, ping, pong       *)
(* timeout, sync window) does anything afterwards: no reconnect attempt,   *)
(* no completion of the sync window, no frame written.                     *)
(***************************************************************************)
C26_DisconnectCancels ==
    [][/\ ev'.kind = "disconnect"
          => /\ connState'[Self] = "closed"
             /\ timeouts'[Self] = NoTimeouts
             /\ ~isSyncing'[Self]
       /\ connState[Self] = "closed"
          => /\ connState'[Self] = "closed"
             /\ ev'.kind \notin {"connect", "open", "completeSync", "ping", "closing", "tick"}
             /\ sent'[Self] = <<>>]_vars

\* disconnect() was called while the client was ready, its ping timer
\* pending
C26_Witness ==
    /\ ev.kind = "disconnect"
    /\ ev.outcome = "ready"
    /\ connState[Self] = "closed"
    /\ sock[Self] = "DETACHED"

(***************************************************************************)
(* C22: the relay closes a joined session with the normal-closure status   *)
(* once no frame has been received from it for 30 seconds, which it sees   *)
(* at the next check, one every 5 seconds; and it never closes a session   *)
(* for inactivity while less than 30 seconds have passed since the last    *)
(* frame it received from it.                                              *)
(***************************************************************************)
C22_InactivityClose ==
    [][\A k \in Timed :
          /\ (hev'.conn = k /\ hev'.kind = "inactivity")
             => /\ handler[k].pc = "joined"
                /\ inactivity[k].inactiveSeconds >= 30
                /\ hev'.close = NormalClosure
                /\ webSocket'[k] = "Closed"
          /\ (handler'[k].pc = "joined" /\ webSocket'[k] = "Open")
             => inactivity'[k].inactiveSeconds < 30 + 5]_vars

\* a session that sent a frame and then none for 30 seconds is closed at
\* the next check
C22_Witness ==
    /\ hev.kind = "inactivity"
    /\ hev.close = NormalClosure
    /\ inactivity[hev.conn].inactiveSeconds > 30
    /\ boardStates[handler[hev.conn].board][handler[hev.conn].clientId].isReady
    /\ webSocket[hev.conn] = "Closed"

(***************************************************************************)
(* C28: a replica whose phase is reviewing never applies an incoming       *)
(* cardOp or vote whose phase field is forming, neither when the op        *)
(* arrives outside a sync window nor when the window that buffered it      *)
(* ends.                                                                   *)
(***************************************************************************)
C28_NoFormingOpInReview ==
    [][/\ (/\ ev'.kind = "message"
           /\ ev'.frame.type \in {"cardOp", "vote"}
           /\ ev'.outcome = "applied")
          => ~(state[Self].phase = "reviewing" /\ ev'.frame.phase = "forming")
       /\ ev'.kind = "completeSync"
          => \A i \in 1..Len(ev'.replayed) :
                ~(state'[Self].phase = "reviewing" /\ ev'.replayed[i].phase = "forming")]_vars

\* the part of C28 that validation keeps: outside a sync window no forming
\* op is applied by a replica in review
C28_RejectedOutsideWindow ==
    [][(/\ ev'.kind = "message"
        /\ ev'.frame.type \in {"cardOp", "vote"}
        /\ state[Self].phase = "reviewing"
        /\ ev'.frame.phase = "forming")
       => /\ ev'.outcome = "rejected"
          /\ state' = state]_vars

(***************************************************************************)
(* C29: once the phase of a replica is reviewing, the cards and the votes  *)
(* of its state never change again.                                        *)
(***************************************************************************)
C29_FrozenInReview ==
    [][state[Self].phase = "reviewing"
       => /\ state'[Self].cards = state[Self].cards
          /\ state'[Self].votes = state[Self].votes]_vars

\* the part of C29 the page keeps: in review no user action and no incoming
\* op with phase forming changes the cards or the votes
C29_NoLocalChangeInReview ==
    [][(/\ state[Self].phase = "reviewing"
        /\ \/ ev'.kind = "local"
           \/ ev'.kind = "message" /\ ev'.frame.type \in {"cardOp", "vote"}
                                    /\ ev'.frame.phase = "forming")
       => /\ state'[Self].cards = state[Self].cards
          /\ state'[Self].votes = state[Self].votes]_vars

(***************************************************************************)
(* C27: a local card or vote op is accepted only if its authorId or        *)
(* voterId is the local client id, its phase is the local phase and its    *)
(* rev is the stored rev of the entity plus one (1 when the entity is not  *)
(* stored); any other local op is rejected: it is neither applied nor      *)
(* broadcast.                                                              *)
(***************************************************************************)
C27_LocalOpGuard ==
    [][ev'.kind = "local" /\ ev'.frame.type \in {"cardOp", "vote"}
       => LET op == ev'.frame
              owner == IF op.type = "cardOp" THEN op.authorId ELSE op.voterId
              stored == IF op.type = "cardOp" THEN getCardRev(state[Self], op.cardId)
                        ELSE getVoteRev(state[Self], op.cardId, op.voterId)
              ok == /\ owner = Self
                    /\ op.phase = state[Self].phase
                    /\ op.rev = stored + 1
          IN /\ ev'.outcome \in {"applied", "rejected"}
             /\ ev'.outcome = "applied" => ok
             /\ ~ok => ev'.outcome = "rejected"
             /\ ev'.outcome = "rejected"
                => /\ state' = state
                   /\ sent'[Self] = <<>>
                   /\ opCounter' = opCounter
                   /\ seenOpIds' = seenOpIds]_vars

\* a local edit of the own card in the local phase was rejected for its rev
\* alone, while the socket was open
C27_Witness ==
    /\ ev.kind = "local"
    /\ ev.outcome = "rejected"
    /\ ev.frame.type = "cardOp"
    /\ ev.frame.authorId = Self
    /\ ev.frame.phase = state[Self].phase
    /\ ev.frame.rev # getCardRev(state[Self], ev.frame.cardId) + 1
    /\ sock[Self] = "OPEN"
    /\ sent[Self] = <<>>

(***************************************************************************)
(* C30: any version that takes the place of the stored version of a card   *)
(* (through a local op, an incoming op or a merge) carries the authorId of *)
(* the stored version, and any version that takes the place of a stored    *)
(* vote carries its voterId.  Stated for what the socket delivers: no      *)
(* step other than a local op changes the authorId of a stored card or the *)
(* voterId of a stored vote.                                               *)
(***************************************************************************)
C30_OwnerKept ==
    [][ev'.kind # "local"
       => /\ \A i \in 1..Len(state[Self].cards) :
                LET old == state[Self].cards[i]
                IN /\ IndexOf(state'[Self].cards, old.id) # 0
                   /\ Entry(state'[Self].cards, old.id).authorId = old.authorId
          /\ \A i \in 1..Len(state[Self].votes) :
                LET old == state[Self].votes[i]
                IN /\ IndexOf(state'[Self].votes, old.id) # 0
                   /\ Entry(state'[Self].votes, old.id).voterId = old.voterId]_vars

(***************************************************************************)
(* C31: quorumNeeded(n) is n for n <= 2 and ceil(0.6 * n) for n > 2; for   *)
(* every participant count of the documented quorum table it is the listed *)
(* value; and 1 <= quorumNeeded(n) <= n for every n from 1 to 20.          *)
(***************************************************************************)
QuorumTable ==
    (1 :> 1) @@ (2 :> 2) @@ (3 :> 2) @@ (4 :> 3) @@ (5 :> 3) @@ (6 :> 4) @@ (7 :> 5)
    @@ (8 :> 5) @@ (9 :> 6) @@ (10 :> 6) @@ (12 :> 8) @@ (15 :> 9) @@ (20 :> 12)

C31_QuorumNeeded ==
    LET n == banner.participantCount
    IN state[Self].phase = "forming" =>
          /\ banner.needed = IF n <= 2 THEN n ELSE (3 * n + 4) \div 5
          /\ n \in DOMAIN QuorumTable => banner.needed = QuorumTable[n]
          /\ n >= 1 => (1 <= banner.needed /\ banner.needed <= n)
          /\ banner.visible <=> (n > 0 /\ banner.readyCount >= banner.needed)

\* the banner shown for 15 participants of whom 9 are ready: 0.6 * 15 is no
\* whole number before it is rounded to a double
C31_Witness ==
    /\ banner.participantCount = 15
    /\ banner.readyCount = 9
    /\ banner.needed = 9
    /\ banner.visible
    /\ state[Self].phase = "forming"

(***************************************************************************)
(* C32: when the relay fans a frame out to several peers, a failed write   *)
(* to one peer neither keeps the frame from the remaining open peers nor   *)
(* ends or unregisters the session whose frame is being relayed.           *)
(***************************************************************************)
C32_FailedWriteIsolated ==
    [][hev'.kind = "send-failed" /\ hev'.frame.type \in {"cardOp", "vote", "phaseChanged", "syncState"}
       => LET k == hev'.conn
              P == boardStates[handler[k].board]
          IN /\ handler'[k].pc = "joined"
             /\ handler[k].clientId \in DOMAIN boardStates'[handler[k].board]
             /\ \A w \in Dispatch(P, handler[k].clientId, hev'.frame) :
                   webSocket'[w.to] = "Open" => w \in out']_vars

\* the part Task.WhenAll keeps: a cardOp, vote or phaseChanged whose write to
\* one peer fails is still written to every other open peer
C32_OthersReached ==
    [][hev'.kind = "send-failed" /\ hev'.frame.type \in {"cardOp", "vote", "phaseChanged"}
       => LET k == hev'.conn
              P == boardStates[handler[k].board]
          IN \A w \in Dispatch(P, handler[k].clientId, hev'.frame) :
                webSocket'[w.to] = "Open" => w \in out']_vars

(***************************************************************************)
(* C33: while a sync window is active, every incoming cardOp or vote that  *)
(* passes validation and the duplicate check is buffered and not applied;  *)
(* when the window's timer expires the collected snapshots are merged into *)
(* the local state first and only then the buffered ops are applied, in    *)
(* arrival order; afterwards the buffer and the snapshot list are empty    *)
(* and no sync is in progress.                                             *)
(***************************************************************************)
RECURSIVE C33_Merged(_)
\* the local state with the first n collected snapshots merged into it
C33_Merged(n) ==
    IF n = 0 THEN state[Self]
    ELSE mergeState(C33_Merged(n - 1), receivedStates[Self][n]).state

RECURSIVE C33_Replayed(_)
\* that with the first n buffered ops applied on top of all the snapshots
C33_Replayed(n) ==
    IF n = 0 THEN C33_Merged(Len(receivedStates[Self]))
    ELSE LET op == bufferedOps[Self][n]
         IN IF op.type = "cardOp" THEN applyCardOp(C33_Replayed(n - 1), op)
            ELSE applyVote(C33_Replayed(n - 1), op)

C33_SyncWindow ==
    [][/\ (ev'.kind = "message" /\ ev'.frame.type \in {"cardOp", "vote"} /\ isSyncing[Self])
          => LET m == ev'.frame
                 valid == IF m.type = "cardOp"
                          THEN validateIncomingCardOp(m, state[Self], state[Self].phase)
                          ELSE validateIncomingVoteOp(m, state[Self], state[Self].phase)
                 fresh == m.opId = NoOpId \/ m.opId \notin seenOpIds[Self]
             IN /\ state' = state
                /\ isSyncing'[Self]
                /\ bufferedOps'[Self] = IF valid /\ fresh THEN Append(bufferedOps[Self], m)
                                        ELSE bufferedOps[Self]
       /\ ev'.kind = "completeSync"
          => /\ isSyncing[Self]
             /\ state'[Self] = C33_Replayed(Len(bufferedOps[Self]))
             /\ ev'.replayed = bufferedOps[Self]
             /\ bufferedOps'[Self] = <<>>
             /\ receivedStates'[Self] = <<>>
             /\ ~isSyncing'[Self]]_vars

\* a window has just ended that collected a snapshot which changed the state
\* and buffered two ops
C33_Witness ==
    /\ ev.kind = "completeSync"
    /\ ev.outcome = "changed"
    /\ Len(ev.replayed) = 2
    /\ ev.replayed[1] # ev.replayed[2]
    /\ ~isSyncing[Self]
    /\ bufferedOps[Self] = <<>>

(***************************************************************************)
(* C34: mergeState(local, remote).changed is true if and only if the       *)
(* returned state differs from local in phase or in some card or vote (an  *)
(* id absent from local, or a shared id whose remote version wins); it is  *)
(* false whenever remote contributes nothing new, including when both      *)
(* states are empty.                                                       *)
(***************************************************************************)
C34_Differs(before, after) ==
    \/ Ids(after) # Ids(before)
    \/ \E id \in Ids(before) : Entry(after, id) # Entry(before, id)

C34_RemoteWins(before, remote, after) ==
    \/ Ids(remote) \ Ids(before) # {}
    \/ \E id \in Ids(remote) \cap Ids(before) :
          /\ Entry(after, id) = Entry(remote, id)
          /\ Entry(after, id) # Entry(before, id)

C34_ChangedIffDiffers ==
    mPc = "done" =>
       LET merged == mLR.state
           differs == \/ merged.phase # mLocal.phase
                      \/ C34_Differs(mLocal.cards, merged.cards)
                      \/ C34_Differs(mLocal.votes, merged.votes)
           wins == \/ merged.phase # mLocal.phase
                   \/ C34_RemoteWins(mLocal.cards, mRemote.cards, merged.cards)
                   \/ C34_RemoteWins(mLocal.votes, mRemote.votes, merged.votes)
       IN /\ mLR.changed <=> differs
          /\ mLR.changed <=> wins
          /\ (mLocal.cards = <<>> /\ mLocal.votes = <<>> /\ mRemote.cards = <<>>
              /\ mRemote.votes = <<>> /\ mLocal.phase = mRemote.phase) => ~mLR.changed

\* a merge in which the remote version of the one shared card loses and
\* only the phase of the remote state is new
C34_Witness ==
    /\ mPc = "done"
    /\ mLR.changed
    /\ mLR.state.phase # mLocal.phase
    /\ mLR.state.cards = mLocal.cards
    /\ mRemote.cards # <<>>
    /\ mRemote.cards # mLocal.cards

(***************************************************************************)
(* C35: if two clients are joined to the same board through the relay,     *)
(* both outside a sync window and both in the forming phase, a card or     *)
(* vote op that one of them accepts locally and broadcasts is eventually   *)
(* applied by the other, so that both hold the same version of the entity. *)
(***************************************************************************)
C35_Broadcast(r, op) ==
    /\ ev.who = r
    /\ ev.kind = "local"
    /\ ev.outcome = "applied"
    /\ sent[r] # <<>>
    /\ ev.frame.type = op.type
    /\ ev.frame.cardId = op.cardId
    /\ op.type = "vote" => ev.frame.voterId = op.voterId
    /\ \A x \in Replicas : Joined(x) /\ state[x].phase = "forming"

C35_SameVersion(op) ==
    \A r1, r2 \in Replicas : EntityOf(state[r1], op) = EntityOf(state[r2], op)

C35_EventuallyApplied ==
    \A r \in Replicas :
       \A op \in [type : {"cardOp", "vote"}, cardId : {"c1", "c2"}, voterId : Replicas] :
          C35_Broadcast(r, op) ~> C35_SameVersion(op)

\* what the relay does deliver: the op a replica broadcast reaches the other
\* replica's onMessage, which drops it for its missing senderId
C35_DeliveredAndDropped ==
    /\ ev.kind = "message"
    /\ ev.frame.type \in {"cardOp", "vote"}
    /\ ev.frame.senderId = ""
    /\ ev.outcome = "rejected"
    /\ \A x \in Replicas : Joined(x) /\ state[x].phase = "forming"

(***************************************************************************)
(* C36: every incoming cardOp or vote whose opId a replica has recorded in *)
(* its dedup set is either applied to the replica's state or still held in *)
(* the sync buffer awaiting replay; no recorded op is discarded without    *)
(* having been applied.                                                    *)
(***************************************************************************)
\* applying the op would change nothing: the state holds its version of the
\* entity or one that wins over it
C36_Applied(st, op) ==
    IF op.type = "cardOp" THEN applyCardOp(st, op) = st ELSE applyVote(st, op) = st

C36_Held(buffer, op) == \E i \in 1..Len(buffer) : buffer[i] = op

C36_RecordedOpKept ==
    [][\A i \in 1..Len(bufferedOps[Self]) :
          LET op == bufferedOps[Self][i]
          IN op.opId \in seenOpIds[Self]
             => \/ C36_Held(bufferedOps'[Self], op)
                \/ C36_Applied(state'[Self], op)]_vars

\* the part that holds: the step that records the opId of an incoming op
\* applies the op or puts it into the buffer
C36_RecordedThenKept ==
    [][(ev'.kind = "message" /\ ev'.frame.type \in {"cardOp", "vote"}
        /\ ev'.frame.opId \in seenOpIds'[Self] /\ ev'.frame.opId \notin seenOpIds[Self])
       => \/ C36_Held(bufferedOps'[Self], ev'.frame)
          \/ C36_Applied(state'[Self], ev'.frame)]_vars

(***************************************************************************)
(* C37: after a client sends setReady and all resulting frames are         *)
(* delivered, the readyCount last reported to every joined client of the   *)
(* board, the client that sent the setReady included, equals the number of *)
(* sessions the relay has marked ready.                                    *)
(***************************************************************************)
C37_OnBoard(k, b) ==
    /\ handler[k].pc = "joined"
    /\ handler[k].board = b
    /\ webSocket[k] = "Open"

C37_ReadyCountReported ==
    [][hev'.kind = "message" /\ hev'.frame.type = "setReady"
       => LET b == handler[hev'.conn].board
          IN \A k \in DOMAIN counts :
                C37_OnBoard(k, b) => counts'[k].readyCount = ReadyCount(boardStates'[b])]_vars

\* the part that holds: every joined client other than the sender holds the
\* number of sessions marked ready after a setReady that marked one
C37_OthersTold ==
    [][(hev'.kind = "message" /\ hev'.frame.type = "setReady" /\ hev'.frame.hasReady)
       => LET b == handler[hev'.conn].board
          IN \A k \in DOMAIN counts \ {hev'.conn} :
                C37_OnBoard(k, b) => counts'[k].readyCount = ReadyCount(boardStates'[b])]_vars

(***************************************************************************)
(* C38: after any interleaving of concurrent joins and leaves on a board,  *)
(* once all frames are delivered and no further join or leave occurs, the  *)
(* participantCount last received by every joined client equals the number *)
(* of sessions registered on the board.                                    *)
(***************************************************************************)
\* no join and no leave is under way
C38_Quiet ==
    \A k \in DOMAIN counts :
       \/ handler[k].pc \in {"new", "done"}
       \/ handler[k].pc = "joined" /\ webSocket[k] = "Open"

C38_ParticipantCountSettles ==
    C38_Quiet =>
       \A k \in DOMAIN counts :
          handler[k].pc = "joined"
             => counts[k].participantCount = Cardinality(DOMAIN boardStates[handler[k].board])

(***************************************************************************)
(* C39: under any interleaving of one session's teardown with another      *)
(* connection's join to the same boardId, all sessions registered for the  *)
(* boardId are held in the single registry entry currently mapped to it,   *)
(* so a frame fanned out for the board reaches every other registered      *)
(* session of the boardId.                                                 *)
(***************************************************************************)
C39_SingleEntry ==
    \A b \in 1..Len(boardStates) :
       b # boards => DOMAIN boardStates[b] = {}

\* the fan-out half: a relayed frame is written to every other session
\* registered for the boardId whose socket is open
C39_FanoutReachesAll ==
    [][(hev'.kind = "message" /\ hev'.frame.type \in {"cardOp", "vote", "phaseChanged"})
       => \A k \in Sockets \ {hev'.conn} :
             (handler[k].pc \in {"welcomed", "joined"} /\ webSocket[k] = "Open")
                => \E w \in out' : w.to = k]_vars

(***************************************************************************)
(* C40: after any sequence of connect(), disconnect(), socket open and     *)
(* close events and timer firings, a connection manager has at most one    *)
(* socket that is open or opening, and a close event of an earlier socket  *)
(* never changes the state of, or drops the reference to, a later socket.  *)
(***************************************************************************)
C40_Live(socket) == socket \in {"CONNECTING", "OPEN"}

C40_OpenOrOpening ==
    Cardinality({i \in DOMAIN detached : C40_Live(detached[i])})
       + (IF C40_Live(sock[Self]) THEN 1 ELSE 0)

C40_OneSocket == C40_OpenOrOpening <= 1

\* the second half: the close event of an earlier socket leaves the
\* manager's state and its reference to a live socket as they were
C40_EarlierCloseHarmless ==
    [][(ev'.kind = "close" /\ detached' # detached /\ C40_Live(sock[Self]))
       => sock'[Self] = sock[Self] /\ connState'[Self] = connState[Self]]_vars

=============================================================================
